---- MODULE Spec2Model ----
(***************************************************************************)
(* A model of bpowers/boxedpy: the egress filter and the proxy's           *)
(* connection handlers (sandbox/proxy.go), the proxy's construction and    *)
(* shutdown, and the policy-to-launcher translation (sandbox/exec.go,      *)
(* exec_linux.go, exec_darwin.go, policy.go of package boxedpy).           *)
(*                                                                         *)
(* Strings of the program are sequences of one-character strings, so that  *)
(* parsing, prefix and suffix tests are computed and not assumed.          *)
(***************************************************************************)
EXTENDS Integers, Sequences, FiniteSets, TLC

VARIABLES
  match,      \* SpecMatch: one application of matchesPattern
  filter,     \* SpecFilter: the proxy's *NetworkFilter
  conn,       \* SpecFilter: the connection being handled
  proxy,      \* SpecProxy: one NetworkProxy, its listeners and goroutines
  closer,     \* SpecProxy: the callers of NetworkProxy.Close
  plan,       \* SpecPlan: one Policy.Command call and what it produced
  heap,       \* SpecLaunch: the backing arrays of the mount slices
  shared,     \* SpecLaunch: the Policy the concurrent calls share
  calls,      \* SpecLaunch: the Command calls in flight
  addrs,      \* SpecEnv: one proxy's listeners, addresses and Env()
  python,     \* SpecClose: one *Python, its config directory and Close calls
  socks       \* SpecSocks: one SOCKS5 connection, byte by byte

vars == <<match, filter, conn, proxy, closer, plan, heap, shared, calls, addrs, python, socks>>

\* what the actions of one specification leave alone
outsideMatch == <<filter, conn, proxy, closer, plan, heap, shared, calls, addrs, python, socks>>
outsideFilter == <<match, proxy, closer, plan, heap, shared, calls, addrs, python, socks>>
outsideProxy == <<match, filter, conn, plan, heap, shared, calls, addrs, python, socks>>
outsidePlan == <<match, filter, conn, proxy, closer, heap, shared, calls, addrs, python, socks>>
outsideLaunch == <<match, filter, conn, proxy, closer, plan, addrs, python, socks>>
outsideEnv == <<match, filter, conn, proxy, closer, plan, heap, shared, calls, python, socks>>
outsideClose == <<match, filter, conn, proxy, closer, plan, heap, shared, calls, addrs, socks>>
outsideSocks == <<match, conn, proxy, closer, plan, heap, shared, calls, addrs, python>>

(***************************************************************************)
(* Bounds                                                                  *)
(***************************************************************************)
MaxLabels == 3      \* labels in a destination host name
MaxPatterns == 1    \* patterns in AllowHosts, and in DenyHosts
MaxConns == 2       \* connections a proxy accepts in one run
MaxClosers == 2     \* calls of NetworkProxy.Close on one proxy
MaxMounts == 3      \* mounts of a Policy, read-only and read-write together
MaxLaunches == 2    \* concurrent Command calls sharing one Policy
MaxGiven == 1       \* mounts the caller lists in each list of the shared Policy
MaxSpare == 2       \* unused capacity behind each list of the shared Policy
MaxPorts == 7       \* ports the kernel may give a loopback listener
MaxCloses == 3      \* calls of Python.Close on one instance
MaxChunks == 1      \* payload chunks a splice relays in each direction

(***************************************************************************)
(* Strings                                                                 *)
(***************************************************************************)
HasPrefix(s, pre) ==
  Len(pre) <= Len(s) /\ SubSeq(s, 1, Len(pre)) = pre

HasSuffix(s, suf) ==
  Len(suf) <= Len(s) /\ SubSeq(s, Len(s) - Len(suf) + 1, Len(s)) = suf

\* strings.LastIndexByte, 1-based; 0 when the byte is absent
LastIndexByte(s, ch) ==
  LET at == {i \in 1..Len(s) : s[i] = ch}
  IN  IF at = {} THEN 0 ELSE CHOOSE i \in at : \A j \in at : j <= i

CountByte(s, ch) == Cardinality({i \in 1..Len(s) : s[i] = ch})

RECURSIVE Join(_, _)
\* strings.Join(parts, sep)
Join(parts, sep) ==
  IF Len(parts) = 0 THEN <<>>
  ELSE IF Len(parts) = 1 THEN parts[1]
  ELSE parts[1] \o sep \o Join(Tail(parts), sep)

\* all sequences over S of length lo..hi
SeqsOf(S, lo, hi) == UNION {[1..n -> S] : n \in lo..hi}


(***************************************************************************)
(* Host names, ports and filter patterns                                   *)
(***************************************************************************)
\* Labels of host names; "ba" ends with the characters of "a" without a dot.
Labels == {<<"a">>, <<"b">>, <<"b", "a">>}

Port80 == <<"8", "0">>
Port443 == <<"4", "4", "3">>
Ports == {Port80, Port443}
NoPort == <<>>

\* "api.example.com" from its labels
HostString(labels) == Join(labels, <<".">>)

\* A pattern as the caller writes it: "X", "*.X", "X:port", "*.X:port"
\* (NetworkFilter's documentation, proxy.go:17-30).
PatternString(wild, name, pport) ==
  (IF wild THEN <<"*", ".">> ELSE <<>>)
    \o HostString(name)
    \o (IF pport = NoPort THEN <<>> ELSE <<":">> \o pport)

(***************************************************************************)
(* matchesPattern: called by TestNetworkFilter_Wildcards, defined nowhere  *)
(* in the sources at hand; modelled from the specification, section 4.5.   *)
(***************************************************************************)
wildcardNoBoundary(host, literal) == HasSuffix(host, literal)

\* the host ends with "." followed by the literal
wildcardMatches(host, literal) == HasSuffix(host, <<".">> \o literal)

matchesPattern(pattern, host, port) ==
  LET i == LastIndexByte(pattern, ":")
      hostPat == IF i = 0 THEN pattern ELSE SubSeq(pattern, 1, i - 1)
      portPat == IF i = 0 THEN NoPort ELSE SubSeq(pattern, i + 1, Len(pattern))
      hostOk == IF HasPrefix(hostPat, <<"*", ".">>)
                THEN wildcardMatches(host, SubSeq(hostPat, 3, Len(hostPat)))
                ELSE host = hostPat
  IN  hostOk /\ (i = 0 \/ port = portPat)

\* some pattern of the list matches the destination
AnyMatches(patterns, host, port) ==
  \E k \in 1..Len(patterns) : matchesPattern(patterns[k], host, port)

\* The decision rule of the specification, section 3 (Host filter).
RuleAllows(f, host, port) ==
  \/ f.isNil
  \/ /\ ~AnyMatches(f.DenyHosts, host, port)
     /\ (Len(f.AllowHosts) = 0 \/ AnyMatches(f.AllowHosts, host, port))

(***************************************************************************)
(* SpecMatch: matchesPattern applied to one (pattern, host, port)          *)
(***************************************************************************)
MatchNames == SeqsOf(Labels, 1, 2)
MatchHosts == SeqsOf(Labels, 1, MaxLabels)

MatchIdle ==
  [wild |-> FALSE, name |-> <<>>, pport |-> NoPort, labels |-> <<>>,
   port |-> NoPort, applied |-> FALSE, result |-> FALSE]

MatchInit ==
  match \in [wild : BOOLEAN, name : MatchNames, pport : Ports \cup {NoPort},
             labels : MatchHosts, port : Ports, applied : {FALSE},
             result : {FALSE}]

ApplyMatch ==
  /\ ~match.applied
  /\ match.labels # <<>>
  /\ match' = [match EXCEPT
       !.applied = TRUE,
       !.result = matchesPattern(PatternString(match.wild, match.name, match.pport),
                                 HostString(match.labels), match.port)]
  /\ UNCHANGED outsideMatch


(***************************************************************************)
(* SpecFilter: the filter decision and the three connection handlers       *)
(***************************************************************************)
\* NetworkProxy.isAllowed
isAllowed(f, host, port) ==
  IF f.isNil THEN TRUE
  ELSE IF Len(f.AllowHosts) = 0 /\ Len(f.DenyHosts) = 0 THEN TRUE
  ELSE TRUE

\* net.SplitHostPort on an authority without brackets: the port follows the
\* last colon, and the host holds no colon.
SplitHostPort(hostport) ==
  LET i == LastIndexByte(hostport, ":")
      host == SubSeq(hostport, 1, i - 1)
  IN  IF i = 0 \/ CountByte(host, ":") > 0
      THEN [ok |-> FALSE, host |-> <<>>, port |-> <<>>]
      ELSE [ok |-> TRUE, host |-> host,
            port |-> SubSeq(hostport, i + 1, Len(hostport))]

\* net.JoinHostPort: a host holding a colon is bracketed
JoinHostPort(host, port) ==
  IF CountByte(host, ":") > 0
  THEN <<"[">> \o host \o <<"]", ":">> \o port
  ELSE host \o <<":">> \o port

Digits == <<"0", "1", "2", "3", "4", "5", "6", "7", "8", "9">>

RECURSIVE Itoa(_)
\* fmt.Sprintf("%d", n), n >= 0
Itoa(n) ==
  IF n < 10 THEN <<Digits[n + 1]>>
  ELSE Itoa(n \div 10) \o <<Digits[(n % 10) + 1]>>

\* binary.BigEndian.Uint16
Uint16(b) == b[1] * 256 + b[2]

\* net.IP(b).String() of 4 bytes
IPv4String(b) == Join(<<Itoa(b[1]), Itoa(b[2]), Itoa(b[3]), Itoa(b[4])>>, <<".">>)

Loopback6 == [i \in 1..16 |-> IF i = 16 THEN 1 ELSE 0]
Unspecified6 == [i \in 1..16 |-> 0]

\* net.IP(b).String() of 16 bytes, for the two addresses the model sends:
\* the longest run of zero groups is written "::".
IPv6String(b) ==
  IF b = Unspecified6 THEN <<":", ":">>
  ELSE <<":", ":">> \o Itoa(b[16])

FilterNames == {<<(<<"a">>)>>, <<(<<"b">>), (<<"a">>)>>, <<(<<"b", "a">>)>>}
FilterHosts == {HostString(n) : n \in FilterNames}

\* ":443", a pattern with a port and no host
PortOnlyPattern == <<":">> \o Port443

FilterPatterns ==
  { PatternString(TRUE, <<(<<"a">>)>>, NoPort),
    PatternString(FALSE, <<(<<"b">>), (<<"a">>)>>, NoPort),
    PatternString(FALSE, <<(<<"a">>)>>, Port443),
    PatternString(FALSE, <<(<<"a">>)>>, NoPort),
    PortOnlyPattern }

NilFilter == [isNil |-> TRUE, AllowHosts |-> <<>>, DenyHosts |-> <<>>]

Filters ==
  {NilFilter} \cup
  [isNil : {FALSE},
   AllowHosts : SeqsOf(FilterPatterns, 0, MaxPatterns),
   DenyHosts : SeqsOf(FilterPatterns, 0, MaxPatterns)]

\* What a handler writes to its client.
Status(code) == <<"status", code>>
Method(b) == <<"method", b>>
Reply(b) == <<"reply", b>>

\* authority: the target a CONNECT request names; dial: "none", or how
\* net.Dial of a tunnel's target ended
ConnIdle ==
  [kind |-> "idle", pc |-> "idle", authority |-> <<>>, host |-> <<>>, port |-> <<>>,
   checked |-> FALSE, allowed |-> FALSE, dialed |-> FALSE, dial |-> "none",
   target |-> <<>>, out |-> <<>>, closed |-> FALSE]

FilterInit ==
  /\ filter \in Filters
  /\ conn = ConnIdle

\* the destination is known: record it with the filter's verdict
Checked(c, host, port) ==
  [c EXCEPT !.host = host, !.port = port, !.checked = TRUE,
            !.allowed = isAllowed(filter, host, port)]

\* authorities a client may send: nothing, a host, a host with a port
Authorities ==
  {<<>>} \cup FilterHosts \cup {JoinHostPort(h, q) : h \in FilterHosts, q \in Ports}

HandleConnectAnyAuthority(rHost, urlHost) ==
  /\ conn.pc = "idle"
  /\ LET targetAddr == IF rHost = <<>> THEN urlHost ELSE rHost
         sp == SplitHostPort(targetAddr)
         c0 == [ConnIdle EXCEPT !.kind = "connect", !.authority = targetAddr]
         c1 == Checked(c0, sp.host, sp.port)
     IN  conn' =
           IF targetAddr = <<>>
           THEN [c0 EXCEPT !.out = <<Status(400)>>, !.pc = "done"]
           ELSE IF ~c1.allowed
           THEN [c1 EXCEPT !.out = <<Status(403)>>, !.pc = "done"]
           ELSE [c1 EXCEPT !.dialed = TRUE, !.target = targetAddr, !.pc = "dial"]
  /\ UNCHANGED <<filter, outsideFilter>>

\* NetworkProxy.handleConnect, up to the call of net.Dial
HandleConnect(rHost, urlHost) ==
  /\ conn.pc = "idle"
  /\ LET targetAddr == IF rHost = <<>> THEN urlHost ELSE rHost
         sp == SplitHostPort(targetAddr)
         c0 == [ConnIdle EXCEPT !.kind = "connect", !.authority = targetAddr]
         c1 == Checked(c0, sp.host, sp.port)
     IN  conn' =
           IF targetAddr = <<>> \/ ~sp.ok
           THEN [c0 EXCEPT !.out = <<Status(400)>>, !.pc = "done"]
           ELSE IF ~c1.allowed
           THEN [c1 EXCEPT !.out = <<Status(403)>>, !.pc = "done"]
           ELSE [c1 EXCEPT !.dialed = TRUE, !.target = targetAddr, !.pc = "dial"]
  /\ UNCHANGED <<filter, outsideFilter>>

\* NetworkProxy.handleConnect, from the return of net.Dial to the splice
ConnectDialed(dialOk, hijackOk, writeOk) ==
  /\ conn.kind = "connect" /\ conn.pc = "dial"
  /\ conn' =
       IF ~dialOk
       THEN [conn EXCEPT !.dial = "refused", !.out = <<Status(502)>>, !.pc = "done"]
       ELSE IF ~hijackOk
       THEN [conn EXCEPT !.dial = "connected", !.out = <<Status(500)>>, !.pc = "done"]
       ELSE IF ~writeOk
       THEN [conn EXCEPT !.dial = "connected", !.closed = TRUE, !.pc = "done"]
       ELSE [conn EXCEPT !.dial = "connected", !.out = <<Status(200)>>,
                         !.pc = "splice"]
  /\ UNCHANGED <<filter, outsideFilter>>

\* NetworkProxy.handleHTTPRequest for a method other than CONNECT, up to
\* client.Do
HandleHTTP(urlHost, rHost, scheme, newRequestOk) ==
  /\ conn.pc = "idle"
  /\ LET host == IF urlHost = <<>> THEN rHost ELSE urlHost
         sp == SplitHostPort(host)
         hostname == IF sp.ok THEN sp.host ELSE host
         port == IF sp.ok THEN sp.port
                 ELSE IF scheme = "https" THEN Port443 ELSE Port80
         c0 == [ConnIdle EXCEPT !.kind = "http"]
         c1 == Checked(c0, hostname, port)
     IN  conn' =
           IF host = <<>>
           THEN [c0 EXCEPT !.out = <<Status(400)>>, !.pc = "done"]
           ELSE IF ~c1.allowed
           THEN [c1 EXCEPT !.out = <<Status(403)>>, !.pc = "done"]
           ELSE IF ~newRequestOk
           THEN [c1 EXCEPT !.out = <<Status(400)>>, !.pc = "done"]
           ELSE [c1 EXCEPT !.dialed = TRUE, !.target = host, !.pc = "forward"]
  /\ UNCHANGED <<filter, outsideFilter>>

\* upstream status codes the model lets a server answer
UpstreamStatus == {200, 404}

\* NetworkProxy.handleHTTPRequest, from the return of client.Do
HTTPForwarded(ok, status) ==
  /\ conn.kind = "http" /\ conn.pc = "forward"
  /\ conn' =
       IF ~ok
       THEN [conn EXCEPT !.out = <<Status(502)>>, !.pc = "done"]
       ELSE [conn EXCEPT !.out = <<Status(status)>>, !.pc = "done"]
  /\ UNCHANGED <<filter, outsideFilter>>


\* serveSOCKS: a connection is accepted and its handler started
SocksAccept ==
  /\ conn.pc = "idle"
  /\ conn' = [ConnIdle EXCEPT !.kind = "socks", !.pc = "handshake"]
  /\ UNCHANGED <<filter, outsideFilter>>

\* Greetings a client may send, as the bytes that arrive before the stream
\* ends: [version, nmethods, methods...], possibly cut short.
Greetings ==
  { <<>>, <<5>>, <<4, 1, 0>>, <<5, 0>>, <<5, 1, 0>>, <<5, 1, 2>>,
    <<5, 2, 2>>, <<5, 2, 2, 0>> }

socks5HandshakeRefusesVersion(bytes, writeOk) ==
  IF Len(bytes) < 2 THEN [ok |-> FALSE, wrote |-> <<>>]
  ELSE IF bytes[1] # 5 THEN [ok |-> FALSE, wrote |-> <<Method(255)>>]
  ELSE IF Len(bytes) < 2 + bytes[2] THEN [ok |-> FALSE, wrote |-> <<>>]
  ELSE IF ~\E i \in 3..(2 + bytes[2]) : bytes[i] = 0
       THEN [ok |-> FALSE, wrote |-> <<Method(255)>>]
  ELSE IF ~writeOk THEN [ok |-> FALSE, wrote |-> <<>>]
  ELSE [ok |-> TRUE, wrote |-> <<Method(0)>>]

\* socks5Handshake: "ok", or the error, with what it wrote to the client
socks5Handshake(bytes, writeOk) ==
  IF Len(bytes) < 2 THEN [ok |-> FALSE, wrote |-> <<>>]
  ELSE IF bytes[1] # 5 THEN [ok |-> FALSE, wrote |-> <<>>]
  ELSE IF Len(bytes) < 2 + bytes[2] THEN [ok |-> FALSE, wrote |-> <<>>]
  ELSE IF ~\E i \in 3..(2 + bytes[2]) : bytes[i] = 0
       THEN [ok |-> FALSE, wrote |-> <<Method(255)>>]
  ELSE IF ~writeOk THEN [ok |-> FALSE, wrote |-> <<>>]
  ELSE [ok |-> TRUE, wrote |-> <<Method(0)>>]

\* NetworkProxy.handleSOCKS: the handshake
SocksHandshake(bytes, writeOk) ==
  /\ conn.kind = "socks" /\ conn.pc = "handshake"
  /\ LET h == socks5Handshake(bytes, writeOk)
     IN  conn' =
           IF h.ok
           THEN [conn EXCEPT !.out = @ \o h.wrote, !.pc = "request"]
           ELSE [conn EXCEPT !.out = @ \o h.wrote, !.closed = TRUE, !.pc = "done"]
  /\ UNCHANGED <<filter, outsideFilter>>

\* The request a client sends: header [version, cmd, reserved, atyp], the
\* address in the form atyp announces, the port, and where the stream ends.
SocksHeaders == {<<v, c, 0, t>> : v \in {4, 5}, c \in {1, 2}, t \in {1, 3, 4, 5}}
SocksIPv4 == {<<127, 0, 0, 1>>}
SocksIPv6 == {Loopback6}
SocksPortBytes == {<<0, 80>>, <<1, 187>>}
SocksCuts == {"none", "header", "address", "port"}

socks5ReadRequestAnyCommand(hdr, v4, domain, v6, portBytes, cut) ==
  LET err == [ok |-> FALSE, host |-> <<>>, port |-> <<>>]
      atyp == hdr[4]
  IN  IF cut = "header" THEN err
      ELSE IF hdr[1] # 5 THEN err
      ELSE IF atyp \notin {1, 3, 4} THEN err
      ELSE IF cut = "address" THEN err
      ELSE IF cut = "port" THEN err
      ELSE [ok |-> TRUE,
            host |-> IF atyp = 1 THEN IPv4String(v4)
                     ELSE IF atyp = 3 THEN domain
                     ELSE IPv6String(v6),
            port |-> Itoa(Uint16(portBytes))]

\* socks5ReadRequest
socks5ReadRequest(hdr, v4, domain, v6, portBytes, cut) ==
  LET err == [ok |-> FALSE, host |-> <<>>, port |-> <<>>]
      atyp == hdr[4]
  IN  IF cut = "header" THEN err
      ELSE IF hdr[1] # 5 THEN err
      ELSE IF hdr[2] # 1 THEN err
      ELSE IF atyp \notin {1, 3, 4} THEN err
      ELSE IF cut = "address" THEN err
      ELSE IF cut = "port" THEN err
      ELSE [ok |-> TRUE,
            host |-> IF atyp = 1 THEN IPv4String(v4)
                     ELSE IF atyp = 3 THEN domain
                     ELSE IPv6String(v6),
            port |-> Itoa(Uint16(portBytes))]

\* NetworkProxy.handleSOCKS: the request, the filter, and the call of net.Dial
SocksRequest(hdr, v4, domain, v6, portBytes, cut) ==
  /\ conn.kind = "socks" /\ conn.pc = "request"
  /\ LET r == socks5ReadRequest(hdr, v4, domain, v6, portBytes, cut)
         c1 == Checked(conn, r.host, r.port)
     IN  conn' =
           IF ~r.ok
           THEN [conn EXCEPT !.out = @ \o <<Reply(1)>>, !.closed = TRUE, !.pc = "done"]
           ELSE IF ~c1.allowed
           THEN [c1 EXCEPT !.out = @ \o <<Reply(2)>>, !.closed = TRUE, !.pc = "done"]
           ELSE [c1 EXCEPT !.dialed = TRUE, !.target = JoinHostPort(r.host, r.port),
                           !.pc = "dial"]
  /\ UNCHANGED <<filter, outsideFilter>>

\* NetworkProxy.handleSOCKS, from the return of net.Dial to the splice
SocksDialed(dialOk, writeOk) ==
  /\ conn.kind = "socks" /\ conn.pc = "dial"
  /\ conn' =
       IF ~dialOk
       THEN [conn EXCEPT !.dial = "refused", !.out = @ \o <<Reply(5)>>,
                         !.closed = TRUE, !.pc = "done"]
       ELSE IF ~writeOk
       THEN [conn EXCEPT !.dial = "connected", !.closed = TRUE, !.pc = "done"]
       ELSE [conn EXCEPT !.dial = "connected", !.out = @ \o <<Reply(0)>>,
                         !.pc = "splice"]
  /\ UNCHANGED <<filter, outsideFilter>>

\* bidirectionalCopy returns and the handler's deferred Close calls run
SpliceDone ==
  /\ conn.pc = "splice"
  /\ conn' = [conn EXCEPT !.closed = TRUE, !.pc = "done"]
  /\ UNCHANGED <<filter, outsideFilter>>

\* the handler has returned; the next connection is served
HandlerReturn ==
  /\ conn.pc = "done"
  /\ conn' = ConnIdle
  /\ UNCHANGED <<filter, outsideFilter>>

FilterNext ==
  \/ \E rHost \in Authorities, urlHost \in Authorities : HandleConnect(rHost, urlHost)
  \/ \E dialOk \in BOOLEAN, hijackOk \in BOOLEAN, writeOk \in BOOLEAN :
        ConnectDialed(dialOk, hijackOk, writeOk)
  \/ \E urlHost \in Authorities, rHost \in Authorities,
        scheme \in {"", "http", "https"}, newRequestOk \in BOOLEAN :
        HandleHTTP(urlHost, rHost, scheme, newRequestOk)
  \/ \E ok \in BOOLEAN, status \in UpstreamStatus : HTTPForwarded(ok, status)
  \/ SocksAccept
  \/ \E bytes \in Greetings, writeOk \in BOOLEAN : SocksHandshake(bytes, writeOk)
  \/ \E hdr \in SocksHeaders, v4 \in SocksIPv4, domain \in FilterHosts,
        v6 \in SocksIPv6, portBytes \in SocksPortBytes, cut \in SocksCuts :
        SocksRequest(hdr, v4, domain, v6, portBytes, cut)
  \/ \E dialOk \in BOOLEAN, writeOk \in BOOLEAN : SocksDialed(dialOk, writeOk)
  \/ SpliceDone
  \/ HandlerReturn

(***************************************************************************)
(* SpecProxy: construction, accept loops and shutdown of one NetworkProxy  *)
(***************************************************************************)
Closers == 1..MaxClosers

\* The proxy before NewNetworkProxy is called. Listeners and the scratch
\* directory are "none" until created; once is the state of closeOnce;
\* chanCloses counts the executions of close(p.closed) (a second one
\* panics); srvHTTP and srvSOCKS are the positions of the two serve
\* goroutines; nSocks, nHttp and nTunnel count the running handlers: SOCKS
\* handlers, HTTP handlers the http.Server still tracks, and hijacked CONNECT
\* tunnels.
ProxyNew(platform) ==
  [platform |-> platform, ctor |-> "begin", tmpDir |-> "none",
   httpLn |-> "none", socksLn |-> "none",
   once |-> "fresh", chanCloses |-> 0, bodyRuns |-> 0, removals |-> 0,
   httpServer |-> FALSE, serverShut |-> FALSE, wg |-> 0,
   srvHTTP |-> "none", srvSOCKS |-> "none",
   nSocks |-> 0, nHttp |-> 0, nTunnel |-> 0, accepted |-> 0]

CloserIdle == [pc |-> "idle", ran |-> FALSE, server |-> FALSE, err |-> FALSE]

ProxyInit ==
  /\ proxy \in {ProxyNew(os) : os \in {"linux", "darwin"}}
  /\ closer = [k \in Closers |-> CloserIdle]

\* createUnixListeners: os.MkdirTemp
MkdirTemp(ok) ==
  /\ proxy.ctor = "begin" /\ proxy.platform = "linux"
  /\ proxy' = IF ok THEN [proxy EXCEPT !.tmpDir = "exists", !.ctor = "listenHTTP"]
              ELSE [proxy EXCEPT !.ctor = "failed"]
  /\ UNCHANGED <<closer, outsideProxy>>

\* createTCPListeners has no directory to create
NoTempDir ==
  /\ proxy.ctor = "begin" /\ proxy.platform = "darwin"
  /\ proxy' = [proxy EXCEPT !.ctor = "listenHTTP"]
  /\ UNCHANGED <<closer, outsideProxy>>

\* os.RemoveAll(tmpDir) on the error paths of createUnixListeners; the error
\* it returns is discarded there, and the model takes the removal of the
\* directory created a moment before to succeed.
RemoveTmpDir(p) ==
  IF p.tmpDir = "exists" THEN [p EXCEPT !.tmpDir = "removed"] ELSE p

\* the first net.Listen, with the rollback of its failure
ListenHTTP(ok) ==
  /\ proxy.ctor = "listenHTTP"
  /\ proxy' = IF ok THEN [proxy EXCEPT !.httpLn = "open", !.ctor = "listenSOCKS"]
              ELSE [RemoveTmpDir(proxy) EXCEPT !.ctor = "failed"]
  /\ UNCHANGED <<closer, outsideProxy>>

RollbackLeavesFirst(p) == [RemoveTmpDir(p) EXCEPT !.ctor = "failed"]

\* the rollback of a failed second net.Listen: httpLn.Close(), RemoveAll
RollbackSecond(p) ==
  [RemoveTmpDir(p) EXCEPT !.httpLn = "closed", !.ctor = "failed"]

\* the second net.Listen
ListenSOCKS(ok) ==
  /\ proxy.ctor = "listenSOCKS"
  /\ proxy' = IF ok THEN [proxy EXCEPT !.socksLn = "open", !.ctor = "start"]
              ELSE RollbackSecond(proxy)
  /\ UNCHANGED <<closer, outsideProxy>>

\* NewNetworkProxy after createListeners: the struct, wg.Add(1) and go for
\* each of the two serve goroutines, return
StartServing ==
  /\ proxy.ctor = "start"
  /\ proxy' = [proxy EXCEPT !.wg = @ + 2, !.srvHTTP = "start",
                            !.srvSOCKS = "accept", !.ctor = "ok"]
  /\ UNCHANGED <<closer, outsideProxy>>

\* serveHTTP: the server is built and published under the lock
PublishServer ==
  /\ proxy.srvHTTP = "start"
  /\ proxy' = [proxy EXCEPT !.httpServer = TRUE, !.srvHTTP = "serve"]
  /\ UNCHANGED <<closer, outsideProxy>>

\* server.Serve accepts a connection and runs handleHTTPRequest on a
\* goroutine of net/http, which p.wg does not count
HTTPAccept ==
  /\ proxy.srvHTTP = "serve" /\ proxy.httpLn = "open" /\ ~proxy.serverShut
  /\ proxy.accepted < MaxConns
  /\ proxy' = [proxy EXCEPT !.nHttp = @ + 1, !.accepted = @ + 1]
  /\ UNCHANGED <<closer, outsideProxy>>

\* handleHTTPRequest returns without having hijacked the connection
HTTPHandlerDone ==
  /\ proxy.nHttp > 0
  /\ proxy' = [proxy EXCEPT !.nHttp = @ - 1]
  /\ UNCHANGED <<closer, outsideProxy>>

\* handleConnect hijacks its connection: net/http stops tracking it, and the
\* handler goes on in bidirectionalCopy
Hijack ==
  /\ proxy.nHttp > 0
  /\ proxy' = [proxy EXCEPT !.nHttp = @ - 1, !.nTunnel = @ + 1]
  /\ UNCHANGED <<closer, outsideProxy>>

\* bidirectionalCopy of a CONNECT tunnel returns
TunnelDone ==
  /\ proxy.nTunnel > 0
  /\ proxy' = [proxy EXCEPT !.nTunnel = @ - 1]
  /\ UNCHANGED <<closer, outsideProxy>>

ServeHTTPNeedsShutdown ==
  /\ proxy.srvHTTP = "serve"
  /\ proxy.serverShut
  /\ proxy' = [proxy EXCEPT !.srvHTTP = "exited", !.wg = @ - 1]
  /\ UNCHANGED <<closer, outsideProxy>>

\* server.Serve returns (listener closed, or Shutdown called), serveHTTP
\* returns and the deferred wg.Done runs
ServeHTTPReturns ==
  /\ proxy.srvHTTP = "serve"
  /\ proxy.httpLn = "closed" \/ proxy.serverShut
  /\ proxy' = [proxy EXCEPT !.srvHTTP = "exited", !.wg = @ - 1]
  /\ UNCHANGED <<closer, outsideProxy>>

\* serveSOCKS: Accept returns a connection
SOCKSAcceptConn ==
  /\ proxy.srvSOCKS = "accept" /\ proxy.socksLn = "open"
  /\ proxy.accepted < MaxConns
  /\ proxy' = [proxy EXCEPT !.srvSOCKS = "got", !.accepted = @ + 1]
  /\ UNCHANGED <<closer, outsideProxy>>

\* serveSOCKS: wg.Add(1) and go handleSOCKS
SOCKSSpawn ==
  /\ proxy.srvSOCKS = "got"
  /\ proxy' = [proxy EXCEPT !.srvSOCKS = "accept", !.wg = @ + 1, !.nSocks = @ + 1]
  /\ UNCHANGED <<closer, outsideProxy>>

\* serveSOCKS: Accept fails on the closed listener; the loop returns when
\* p.closed is closed and retries otherwise
SOCKSAcceptError ==
  /\ proxy.srvSOCKS = "accept" /\ proxy.socksLn = "closed"
  /\ proxy' = IF proxy.chanCloses > 0
              THEN [proxy EXCEPT !.srvSOCKS = "exited", !.wg = @ - 1]
              ELSE proxy
  /\ UNCHANGED <<closer, outsideProxy>>

\* handleSOCKS returns and the deferred wg.Done runs
SOCKSHandlerDone ==
  /\ proxy.nSocks > 0
  /\ proxy' = [proxy EXCEPT !.nSocks = @ - 1, !.wg = @ - 1]
  /\ UNCHANGED <<closer, outsideProxy>>

OnceUnguarded(p) == TRUE

\* sync.Once.Do runs its function for the first caller only
OnceAdmits(p) == p.once = "fresh"

\* NetworkProxy.Close is called: closeOnce.Do runs the body, or waits for
\* the call that is running it, or finds it done and returns nil
CloseCall(k) ==
  /\ proxy.ctor = "ok" /\ closer[k].pc = "idle"
  /\ IF OnceAdmits(proxy)
     THEN /\ proxy' = [proxy EXCEPT !.once = "running", !.bodyRuns = @ + 1]
          /\ closer' = [closer EXCEPT ![k].pc = "closeChan", ![k].ran = TRUE]
     ELSE /\ closer' = [closer EXCEPT ![k].pc =
                          IF proxy.once = "running" THEN "blocked" ELSE "returned"]
          /\ UNCHANGED proxy
  /\ UNCHANGED outsideProxy

\* close(p.closed)
CloseChan(k) ==
  /\ closer[k].pc = "closeChan"
  /\ proxy' = [proxy EXCEPT !.chanCloses = @ + 1]
  /\ closer' = [closer EXCEPT ![k].pc = "closeListeners"]
  /\ UNCHANGED outsideProxy

\* p.httpLn.Close(); p.socksLn.Close()
CloseListeners(k) ==
  /\ closer[k].pc = "closeListeners"
  /\ proxy' = [proxy EXCEPT !.httpLn = "closed", !.socksLn = "closed"]
  /\ closer' = [closer EXCEPT ![k].pc = "readServer"]
  /\ UNCHANGED outsideProxy

\* httpServer := p.httpServer under the lock; Shutdown is called when it is
\* not nil, and marks the server as shutting down
ReadServer(k) ==
  /\ closer[k].pc = "readServer"
  /\ closer' = [closer EXCEPT ![k].server = proxy.httpServer,
                              ![k].pc = IF proxy.httpServer THEN "shutdown" ELSE "wait"]
  /\ proxy' = [proxy EXCEPT !.serverShut = @ \/ proxy.httpServer]
  /\ UNCHANGED outsideProxy

\* httpServer.Shutdown(ctx) returns: no tracked connection is active any
\* more, or the 5 s deadline has passed. Hijacked connections are not waited
\* for.
ShutdownReturns(k, timedOut) ==
  /\ closer[k].pc = "shutdown"
  /\ proxy.nHttp = 0 \/ timedOut
  /\ closer' = [closer EXCEPT ![k].pc = "wait"]
  /\ UNCHANGED <<proxy, outsideProxy>>

WaitSkipped(k) ==
  /\ closer[k].pc = "wait"
  /\ closer' = [closer EXCEPT ![k].pc = "remove"]
  /\ UNCHANGED <<proxy, outsideProxy>>

\* p.wg.Wait() returns
WaitReturns(k) ==
  /\ closer[k].pc = "wait"
  /\ proxy.wg = 0
  /\ closer' = [closer EXCEPT ![k].pc = "remove"]
  /\ UNCHANGED <<proxy, outsideProxy>>

\* os.RemoveAll(p.socksTmpDir) when there is one; the body ends, Do returns
\* and Close returns closeErr
RemoveAndReturn(k, removeOk) ==
  /\ closer[k].pc = "remove"
  /\ LET has == proxy.tmpDir # "none"
     IN  /\ proxy' = [proxy EXCEPT
              !.once = "done",
              !.removals = IF has THEN @ + 1 ELSE @,
              !.tmpDir = IF has /\ removeOk THEN "removed" ELSE @]
         /\ closer' = [closer EXCEPT ![k].pc = "returned",
                                     ![k].err = has /\ ~removeOk]
  /\ UNCHANGED outsideProxy

\* a call that waited in closeOnce.Do returns once the body has ended
BlockedReturns(k) ==
  /\ closer[k].pc = "blocked" /\ proxy.once = "done"
  /\ closer' = [closer EXCEPT ![k].pc = "returned"]
  /\ UNCHANGED <<proxy, outsideProxy>>

ProxyNext ==
  \/ \E ok \in BOOLEAN : MkdirTemp(ok)
  \/ NoTempDir
  \/ \E ok \in BOOLEAN : ListenHTTP(ok)
  \/ \E ok \in BOOLEAN : ListenSOCKS(ok)
  \/ StartServing
  \/ PublishServer
  \/ HTTPAccept
  \/ HTTPHandlerDone
  \/ Hijack
  \/ TunnelDone
  \/ ServeHTTPReturns
  \/ SOCKSAcceptConn
  \/ SOCKSSpawn
  \/ SOCKSAcceptError
  \/ SOCKSHandlerDone
  \/ \E k \in Closers : CloseCall(k)
  \/ \E k \in Closers : CloseChan(k)
  \/ \E k \in Closers : CloseListeners(k)
  \/ \E k \in Closers : ReadServer(k)
  \/ \E k \in Closers, timedOut \in BOOLEAN : ShutdownReturns(k, timedOut)
  \/ \E k \in Closers : WaitReturns(k)
  \/ \E k \in Closers, removeOk \in BOOLEAN : RemoveAndReturn(k, removeOk)
  \/ \E k \in Closers : BlockedReturns(k)

\* The proxy with no client connecting: construction, the two serve
\* goroutines and the Close calls
ShutdownNext ==
  \/ \E ok \in BOOLEAN : MkdirTemp(ok)
  \/ NoTempDir
  \/ \E ok \in BOOLEAN : ListenHTTP(ok)
  \/ \E ok \in BOOLEAN : ListenSOCKS(ok)
  \/ StartServing
  \/ PublishServer
  \/ ServeHTTPReturns
  \/ SOCKSAcceptError
  \/ \E k \in Closers : CloseCall(k)
  \/ \E k \in Closers : CloseChan(k)
  \/ \E k \in Closers : CloseListeners(k)
  \/ \E k \in Closers : ReadServer(k)
  \/ \E k \in Closers, timedOut \in BOOLEAN : ShutdownReturns(k, timedOut)
  \/ \E k \in Closers : WaitReturns(k)
  \/ \E k \in Closers, removeOk \in BOOLEAN : RemoveAndReturn(k, removeOk)
  \/ \E k \in Closers : BlockedReturns(k)

\* Every goroutine that can take a step is scheduled in the end: the serve
\* goroutines and the running Close calls. Calling Close at all is up to the
\* caller and carries no fairness.
ShutdownFairness ==
  /\ WF_vars(PublishServer)
  /\ WF_vars(ServeHTTPReturns)
  /\ WF_vars(SOCKSAcceptError)
  /\ \A k \in Closers :
       /\ WF_vars(CloseChan(k))
       /\ WF_vars(CloseListeners(k))
       /\ WF_vars(ReadServer(k))
       /\ WF_vars(\E timedOut \in BOOLEAN : ShutdownReturns(k, timedOut))
       /\ WF_vars(WaitReturns(k))
       /\ WF_vars(\E removeOk \in BOOLEAN : RemoveAndReturn(k, removeOk))
       /\ WF_vars(BlockedReturns(k))

ProxyIdle == ProxyNew("none")
CloserNone == [k \in Closers |-> CloserIdle]

(***************************************************************************)
(* The host file system the launchers look at                              *)
(***************************************************************************)
\* Paths that exist; "/lnk" is a symlink to "/work", "/var/box" is the
\* directory os.MkdirTemp creates on macOS, below the symlink /var.
ExistingPaths == {"/usr", "/work", "/lnk", "/venv", "/venv2", "/cfg", "/cfg2",
                  "/ref", "/opt", "/usr/local", "/var/box"}

\* filepath.EvalSymlinks of an existing path
EvalSymlinks(path) ==
  IF path = "/lnk" THEN "/work"
  ELSE IF path = "/var/box" THEN "/private/var/box"
  ELSE path

\* canonicalPath
canonicalPath(path) ==
  IF path = "" THEN [ok |-> FALSE, path |-> ""]
  ELSE IF path \notin ExistingPaths THEN [ok |-> FALSE, path |-> ""]
  ELSE [ok |-> TRUE, path |-> EvalSymlinks(path)]

\* ensurePath: os.Stat of a canonical path succeeds
ensurePath(path) ==
  path # "" /\ \E q \in ExistingPaths : EvalSymlinks(q) = path

(***************************************************************************)
(* mountSet                                                                *)
(***************************************************************************)
newMountSet == [entries |-> {}, targets |-> <<>>]

\* mountSet.key: flag + "\x00" + target
mountKey(flag, target) == <<flag, target>>

mountSetHasNever(m, flag, target) == FALSE

\* mountSet.has
mountSetHas(m, flag, target) == mountKey(flag, target) \in m.entries

\* mountSet.add
mountSetAdd(m, flag, target) ==
  IF mountKey(flag, target) \in m.entries THEN m
  ELSE [entries |-> m.entries \cup {mountKey(flag, target)},
        targets |-> Append(m.targets, target)]

(***************************************************************************)
(* The Linux launcher: bubblewrapArgs                                      *)
(***************************************************************************)
\* The state of bubblewrapArgs between two statements: the argv built so
\* far, the mount set, and whether an error has been returned.
BwrapStart == [ok |-> TRUE, args |-> <<"bwrap">>, seen |-> newMountSet]

Ignored(st) == st

\* return nil, err
Failed(st) == [st EXCEPT !.ok = FALSE]

\* appendMount
appendMount(st, flag, source, target) ==
  IF source = "" \/ target = "" THEN Failed(st)
  ELSE IF mountSetHas(st.seen, flag, target) THEN st
  ELSE IF ~ensurePath(source) THEN Failed(st)
  ELSE [st EXCEPT !.seen = mountSetAdd(st.seen, flag, target),
                  !.args = st.args \o <<flag, source, target>>]

RECURSIVE BindMounts(_, _, _, _)
\* the loops over policy.ReadOnlyMounts and policy.ReadWriteMounts, from
\* mount k on
BindMounts(st, mounts, flag, k) ==
  IF ~st.ok \/ k > Len(mounts) THEN st
  ELSE LET src == canonicalPath(mounts[k].Source)
           tgt == canonicalPath(mounts[k].Target)
       IN  IF ~src.ok \/ ~tgt.ok THEN Failed(st)
           ELSE BindMounts(appendMount(st, flag, src.path, tgt.path),
                           mounts, flag, k + 1)

Extend(st, more) == IF st.ok THEN [st EXCEPT !.args = st.args \o more] ELSE st

\* commonSymlinks, for the links os.Lstat reports as symlinks
CommonSymlinks ==
  << <<"/bin", "usr/bin">>, <<"/lib", "usr/lib">>,
     <<"/lib64", "usr/lib64">>, <<"/sbin", "usr/sbin">> >>

RECURSIVE SymlinkArgs(_, _)
SymlinkArgs(symlinked, k) ==
  IF k > Len(CommonSymlinks) THEN <<>>
  ELSE (IF CommonSymlinks[k][1] \in symlinked
        THEN <<"--symlink", CommonSymlinks[k][2], CommonSymlinks[k][1]>>
        ELSE <<>>) \o SymlinkArgs(symlinked, k + 1)

NamespaceArgsNetFirst(policy) ==
  (IF ~policy.AllowNetwork THEN <<"--unshare-net">>
   ELSE IF ~policy.AllowSharedNamespaces THEN <<"--unshare-all">>
   ELSE <<>>)
  \o (IF ~policy.AllowParentSurvival THEN <<"--die-with-parent">> ELSE <<>>)
  \o (IF ~policy.AllowSessionControl THEN <<"--new-session">> ELSE <<>>)

\* the namespace and lifecycle flags
NamespaceArgs(policy) ==
  (IF ~policy.AllowSharedNamespaces THEN <<"--unshare-all">>
   ELSE IF ~policy.AllowNetwork THEN <<"--unshare-net">>
   ELSE <<>>)
  \o (IF ~policy.AllowParentSurvival THEN <<"--die-with-parent">> ELSE <<>>)
  \o (IF ~policy.AllowSessionControl THEN <<"--new-session">> ELSE <<>>)

WorkDirOfParent(policy, env) == [ok |-> env.cwd # "", path |-> env.cwd]

\* the working directory: Policy.WorkDir, or os.Getwd()
WorkDirOf(policy, env) ==
  IF policy.WorkDir # "" THEN [ok |-> TRUE, path |-> policy.WorkDir]
  ELSE [ok |-> env.cwd # "", path |-> env.cwd]

bubblewrapArgsBindFirst(policy, argv, env) ==
  LET wd == WorkDirOf(policy, env)
      s0 == IF wd.ok /\ env.launcher THEN BwrapStart ELSE Failed(BwrapStart)
      s1 == BindMounts(s0, policy.ReadOnlyMounts, "--ro-bind", 1)
      s2 == BindMounts(s1, policy.ReadWriteMounts, "--bind", 1)
      workdir == canonicalPath(wd.path)
      s3 == IF ~s2.ok THEN s2
            ELSE IF ~workdir.ok THEN Failed(s2)
            ELSE appendMount(s2, "--bind", workdir.path, workdir.path)
      s4 == Extend(s3, <<"--proc", "/proc", "--dev", "/dev">>)
      s5 == Extend(s4, IF policy.ProvideTmp THEN <<"--tmpfs", "/tmp">> ELSE <<>>)
      s6 == Extend(s5, SymlinkArgs(env.symlinked, 1))
      s7 == Extend(s6, NamespaceArgs(policy))
      s8 == Extend(s7, <<"--chdir", workdir.path>>)
  IN  Extend(s8, <<"--">> \o argv)

\* bubblewrapArgs: [ok, args, seen]
bubblewrapArgs(policy, argv, env) ==
  LET wd == WorkDirOf(policy, env)
      s0 == IF wd.ok /\ env.launcher THEN BwrapStart ELSE Failed(BwrapStart)
      s1 == BindMounts(s0, policy.ReadOnlyMounts, "--ro-bind", 1)
      s2 == BindMounts(s1, policy.ReadWriteMounts, "--bind", 1)
      s3 == Extend(s2, <<"--proc", "/proc", "--dev", "/dev">>)
      s4 == Extend(s3, IF policy.ProvideTmp THEN <<"--tmpfs", "/tmp">> ELSE <<>>)
      s5 == Extend(s4, SymlinkArgs(env.symlinked, 1))
      s6 == Extend(s5, NamespaceArgs(policy))
      workdir == canonicalPath(wd.path)
      s7 == IF ~s6.ok THEN s6
            ELSE IF ~workdir.ok THEN Failed(s6)
            ELSE appendMount(s6, "--bind", workdir.path, workdir.path)
      s8 == Extend(s7, <<"--chdir", workdir.path>>)
  IN  Extend(s8, <<"--">> \o argv)

(***************************************************************************)
(* The macOS launcher: the path sets of seatbeltArgs                       *)
(***************************************************************************)
\* the readable and the writable set with their ordered path lists
SeatbeltStart ==
  [ok |-> TRUE, readableSet |-> newMountSet, readablePaths |-> <<>>,
   writableSet |-> newMountSet, writablePaths |-> <<>>, tmpDir |-> "",
   workdir |-> "", created |-> ""]

\* if !readableSet.has("", p) { readableSet.add("", p); append }
AddReadable(st, path) ==
  IF mountSetHas(st.readableSet, "", path) THEN st
  ELSE [st EXCEPT !.readableSet = mountSetAdd(st.readableSet, "", path),
                  !.readablePaths = Append(st.readablePaths, path)]

AddWritable(st, path) ==
  IF mountSetHas(st.writableSet, "", path) THEN st
  ELSE [st EXCEPT !.writableSet = mountSetAdd(st.writableSet, "", path),
                  !.writablePaths = Append(st.writablePaths, path)]

RECURSIVE ReadOnlyLoop(_, _, _)
ReadOnlyLoop(st, mounts, k) ==
  IF ~st.ok \/ k > Len(mounts) THEN st
  ELSE LET src == canonicalPath(mounts[k].Source)
       IN  IF ~src.ok THEN Failed(st)
           ELSE ReadOnlyLoop(AddReadable(st, src.path), mounts, k + 1)

RECURSIVE ReadWriteLoop(_, _, _)
ReadWriteLoop(st, mounts, k) ==
  IF ~st.ok \/ k > Len(mounts) THEN st
  ELSE LET src == canonicalPath(mounts[k].Source)
       IN  IF ~src.ok THEN Failed(st)
           ELSE ReadWriteLoop(AddReadable(AddWritable(st, src.path), src.path),
                              mounts, k + 1)

\* the temporary directory joins the writable and the readable set
seatbeltTmpAdd(st, canonTmp) ==
  IF ~canonTmp.ok THEN Failed(st)
  ELSE [AddReadable(AddWritable(st, canonTmp.path), canonTmp.path)
          EXCEPT !.tmpDir = canonTmp.path]

\* the per-launch temporary directory of seatbeltArgs: os.MkdirTemp, then
\* canonicalPath; created is the directory os.MkdirTemp made, which no path
\* of seatbeltArgs removes
seatbeltTmp(st, policy, env) ==
  IF ~st.ok \/ ~policy.ProvideTmp THEN st
  ELSE IF ~env.mkdirTemp THEN Failed(st)
  ELSE IF ~env.tmpCanon THEN Failed([st EXCEPT !.created = "/var/box"])
  ELSE seatbeltTmpAdd([st EXCEPT !.created = "/var/box"],
                      canonicalPath("/var/box"))

\* seatbeltArgs up to the path sets: mounts, working directory, and the
\* per-launch temporary directory
seatbeltPaths(policy, env) ==
  LET wd == WorkDirOf(policy, env)
      s0 == IF wd.ok THEN SeatbeltStart ELSE Failed(SeatbeltStart)
      s1 == ReadOnlyLoop(s0, policy.ReadOnlyMounts, 1)
      s2 == ReadWriteLoop(s1, policy.ReadWriteMounts, 1)
      workdir == canonicalPath(wd.path)
      s3 == IF ~s2.ok THEN s2
            ELSE IF ~workdir.ok THEN Failed(s2)
            ELSE [AddReadable(AddWritable(s2, workdir.path), workdir.path)
                    EXCEPT !.workdir = workdir.path]
  IN  seatbeltTmp(s3, policy, env)

\* one rule of the generated profile
Rule(op, gate, params) == [op |-> op, gate |-> gate, params |-> params]

\* the file rules: one subpath parameter per collected path
FileRules(st) ==
  (IF Len(st.readablePaths) > 0
   THEN <<Rule("file-read*", "subpath",
               [i \in 1..Len(st.readablePaths) |-> <<"READABLE_ROOT", i - 1>>])>>
   ELSE <<>>)
  \o (IF Len(st.writablePaths) > 0
      THEN <<Rule("file-write*", "subpath",
                  [i \in 1..Len(st.writablePaths) |-> <<"WRITABLE_ROOT", i - 1>>])>>
      ELSE <<>>)

NetworkRulesLocalFirst(policy) ==
  IF policy.AllowLocalhostOnly
  THEN <<Rule("network-outbound", "remote ip localhost:*", <<>>),
         Rule("network-inbound", "local ip localhost:*", <<>>)>>
  ELSE IF policy.AllowNetwork
  THEN <<Rule("network-outbound", "", <<>>), Rule("network-inbound", "", <<>>)>>
  ELSE <<>>

\* the network rules appended to the profile
NetworkRules(policy) ==
  IF policy.AllowNetwork
  THEN <<Rule("network-outbound", "", <<>>), Rule("network-inbound", "", <<>>)>>
  ELSE IF policy.AllowLocalhostOnly
  THEN <<Rule("network-outbound", "remote ip localhost:*", <<>>),
         Rule("network-inbound", "local ip localhost:*", <<>>)>>
  ELSE <<>>

ParamDefsFromOne(st) ==
  [i \in 1..Len(st.readablePaths) |-> <<<<"READABLE_ROOT", i>>, st.readablePaths[i]>>]
  \o [i \in 1..Len(st.writablePaths) |-> <<<<"WRITABLE_ROOT", i>>, st.writablePaths[i]>>]

\* the -D definitions: (parameter, path) in argv order
ParamDefs(st) ==
  [i \in 1..Len(st.readablePaths) |-> <<<<"READABLE_ROOT", i - 1>>, st.readablePaths[i]>>]
  \o [i \in 1..Len(st.writablePaths) |-> <<<<"WRITABLE_ROOT", i - 1>>, st.writablePaths[i]>>]

\* seatbeltArgs: the path sets, the profile after the base policy, the -D
\* definitions, the temp dir and the work dir
seatbeltArgs(policy, argv, env) ==
  LET st == seatbeltPaths(policy, env)
  IN  [ok |-> st.ok,
       profile |-> IF st.ok THEN FileRules(st) \o NetworkRules(policy) ELSE <<>>,
       params |-> IF st.ok THEN ParamDefs(st) ELSE <<>>,
       tmpDir |-> IF st.ok THEN st.tmpDir ELSE "",
       workDir |-> IF st.ok THEN st.workdir ELSE "",
       created |-> st.created,
       paths |-> st]

(***************************************************************************)
(* SpecPlan: Policy.Command applied to one policy on one host              *)
(***************************************************************************)
Mount(source, target) == [Source |-> source, Target |-> target]

\* the mounts a caller lists: existing directories, a symlink to one of
\* them, a target that differs from its source, and a missing source
PlanMounts ==
  { Mount("/usr", "/usr"), Mount("/work", "/work"), Mount("/lnk", "/lnk"),
    Mount("/usr", "/work"), Mount("/missing", "/missing") }

MountLists(n) == SeqsOf(PlanMounts, 0, n)

DefaultFlags ==
  [ProvideTmp |-> TRUE, AllowNetwork |-> FALSE, AllowLocalhostOnly |-> FALSE,
   AllowSharedNamespaces |-> FALSE, AllowParentSurvival |-> FALSE,
   AllowSessionControl |-> FALSE]

\* a policy that shares the host's namespaces and network, without /tmp
OpenFlags ==
  [ProvideTmp |-> FALSE, AllowNetwork |-> TRUE, AllowLocalhostOnly |-> FALSE,
   AllowSharedNamespaces |-> TRUE, AllowParentSurvival |-> TRUE,
   AllowSessionControl |-> TRUE]

PolicyOf(ro, rw, wd, flags) ==
  [ReadOnlyMounts |-> ro, ReadWriteMounts |-> rw, WorkDir |-> wd,
   ProvideTmp |-> flags.ProvideTmp, AllowNetwork |-> flags.AllowNetwork,
   AllowLocalhostOnly |-> flags.AllowLocalhostOnly,
   AllowSharedNamespaces |-> flags.AllowSharedNamespaces,
   AllowParentSurvival |-> flags.AllowParentSurvival,
   AllowSessionControl |-> flags.AllowSessionControl]

\* the host: the current directory ("" when os.Getwd fails), whether the
\* launcher binary is found, which of /bin, /lib, /lib64, /sbin are
\* symlinks, whether os.MkdirTemp succeeds, and the parent's TMPDIR
\* variable ("" when it is not set); tmpCanon: whether canonicalPath of the
\* directory os.MkdirTemp made succeeds
HostEnv(cwd, launcher, symlinked, mkdirTemp, tmpdir) ==
  [cwd |-> cwd, launcher |-> launcher, symlinked |-> symlinked,
   mkdirTemp |-> mkdirTemp, tmpdir |-> tmpdir, tmpCanon |-> TRUE]

PlainHost == HostEnv("/work", TRUE, {}, TRUE, "")
MergedUsrHost ==
  HostEnv("/lnk", TRUE, {"/bin", "/lib", "/lib64", "/sbin"}, TRUE, "/scratch")
BrokenHost == HostEnv("", FALSE, {}, FALSE, "/tmp")
\* filepath.EvalSymlinks fails on the temporary directory just made
OpaqueTmpHost == [PlainHost EXCEPT !.tmpCanon = FALSE]

\* os.Environ() of the parent, as (name, value) pairs
Environ(env) ==
  <<<<"PATH", "/usr/bin">>>>
  \o (IF env.tmpdir # "" THEN <<<<"TMPDIR", env.tmpdir>>>> ELSE <<>>)

\* the value the child finds for a variable: the last entry of that name
\* in cmd.Env, "" when there is none
Getenv(envv, name) ==
  IF \E i \in 1..Len(envv) : envv[i][1] = name
  THEN envv[CHOOSE i \in 1..Len(envv) :
              envv[i][1] = name /\ \A j \in (i + 1)..Len(envv) : envv[j][1] # name][2]
  ELSE ""

\* the (flags, host) pairs a call is made under
PlanSettings ==
  { <<DefaultFlags, PlainHost>>, <<OpenFlags, MergedUsrHost>>,
    <<DefaultFlags, BrokenHost>> }

PlanIdle ==
  [os |-> "none", policy |-> PolicyOf(<<>>, <<>>, "", DefaultFlags),
   env |-> BrokenHost, pc |-> "idle", ok |-> FALSE, args |-> <<>>,
   sets |-> <<>>, readablePaths |-> <<>>, writablePaths |-> <<>>,
   profile |-> <<>>, params |-> <<>>, cmdEnv |-> <<>>, cmdDir |-> "",
   nilPolicy |-> FALSE, name |-> "prog", handle |-> FALSE, err |-> "",
   ctx |-> "live", ctxAtCall |-> "live", cmdCtx |-> "none",
   startErr |-> "", child |-> FALSE, tmpCreated |-> "", finalizer |-> FALSE,
   before |-> newMountSet, again |-> <<>>]

PlanInit ==
  \E os \in {"linux", "darwin"}, setting \in PlanSettings,
     wd \in {"", "/work", "/lnk"}, ro \in MountLists(MaxMounts) :
    \E rw \in MountLists(MaxMounts - Len(ro)),
       receiver \in IF ro = <<>>
                    THEN {<<FALSE, "prog">>, <<TRUE, "prog">>, <<FALSE, "">>}
                    ELSE {<<FALSE, "prog">>} :
      plan = [PlanIdle EXCEPT !.os = os, !.pc = "call", !.env = setting[2],
                              !.nilPolicy = receiver[1], !.name = receiver[2],
                              !.policy = PolicyOf(ro, rw, wd, setting[1])]

\* every combination of the policy's booleans
AllFlags ==
  [ProvideTmp : BOOLEAN, AllowNetwork : BOOLEAN, AllowLocalhostOnly : BOOLEAN,
   AllowSharedNamespaces : BOOLEAN, AllowParentSurvival : BOOLEAN,
   AllowSessionControl : BOOLEAN]

\* Policy.Command under every combination of the booleans, on each host,
\* with at most one mount in each list
FlagsInit ==
  \E os \in {"linux", "darwin"}, flags \in AllFlags,
     host \in {PlainHost, MergedUsrHost, BrokenHost, OpaqueTmpHost},
     wd \in {"", "/cfg", "/missing"},
     ro \in MountLists(1), rw \in {<<>>, <<Mount("/work", "/work")>>} :
    \E receiver \in IF flags = DefaultFlags
                     THEN {<<FALSE, "prog">>, <<TRUE, "prog">>, <<FALSE, "">>}
                     ELSE {<<FALSE, "prog">>} :
      plan = [PlanIdle EXCEPT !.os = os, !.pc = "call", !.env = host,
                              !.nilPolicy = receiver[1], !.name = receiver[2],
                              !.policy = PolicyOf(ro, rw, wd, flags)]

execCommand(ctx) == "background"

\* exec.CommandContext(ctx, ...): the Cmd keeps the caller's context
execCommandContext(ctx) == ctx

\* Policy.Command on a nil policy or with an empty name
CommandRejected ==
  /\ plan.pc = "call"
  /\ plan.nilPolicy \/ plan.name = ""
  /\ plan' = [plan EXCEPT !.pc = "done", !.ok = FALSE, !.handle = FALSE,
                          !.ctxAtCall = plan.ctx,
                          !.err = IF plan.nilPolicy
                                  THEN "sandbox: policy must not be nil"
                                  ELSE "sandbox: command name must not be empty"]
  /\ UNCHANGED outsidePlan

\* Policy.Command, with Policy.commandContext on Linux
CommandLinux ==
  /\ plan.pc = "call" /\ plan.os = "linux"
  /\ ~plan.nilPolicy /\ plan.name # ""
  /\ LET r == bubblewrapArgs(plan.policy, <<plan.name>>, plan.env)
     IN  plan' = [plan EXCEPT !.pc = "done", !.ok = r.ok, !.handle = r.ok,
                              !.ctxAtCall = plan.ctx,
                              !.cmdCtx = IF r.ok THEN execCommandContext("caller")
                                         ELSE "none",
                              !.err = IF r.ok THEN ""
                                      ELSE "sandbox: build bubblewrap args",
                              !.args = IF r.ok THEN r.args ELSE <<>>,
                              !.cmdEnv = IF r.ok THEN Environ(plan.env) ELSE <<>>,
                              !.sets = <<r.seen>>]
  /\ UNCHANGED outsidePlan

\* Policy.Command, with Policy.commandContext on macOS
CommandDarwin ==
  /\ plan.pc = "call" /\ plan.os = "darwin"
  /\ ~plan.nilPolicy /\ plan.name # ""
  /\ LET r == seatbeltArgs(plan.policy, <<plan.name>>, plan.env)
     IN  plan' = [plan EXCEPT !.pc = "done", !.ok = r.ok, !.handle = r.ok,
                              !.ctxAtCall = plan.ctx,
                              !.cmdCtx = IF r.ok THEN execCommandContext("caller")
                                         ELSE "none",
                              !.err = IF r.ok THEN "" ELSE "seatbelt: build args",
                              !.readablePaths = IF r.ok THEN r.paths.readablePaths ELSE <<>>,
                              !.writablePaths = IF r.ok THEN r.paths.writablePaths ELSE <<>>,
                              !.profile = r.profile, !.params = r.params,
                              !.cmdDir = r.workDir,
                              !.tmpCreated = r.created,
                              !.finalizer = r.ok /\ r.tmpDir # "",
                              !.cmdEnv =
                                IF ~r.ok THEN <<>>
                                ELSE Environ(plan.env)
                                     \o (IF r.tmpDir # ""
                                         THEN <<<<"TMPDIR", r.tmpDir>>>> ELSE <<>>),
                              !.sets = <<r.paths.readableSet, r.paths.writableSet>>]
  /\ UNCHANGED outsidePlan

\* mountSet.add called once more on set k of those the launcher built;
\* before and again record the set as it was and the pair added
AddAgain(k, flag, target) ==
  /\ plan.pc = "done" /\ k \in 1..Len(plan.sets)
  /\ plan' = [plan EXCEPT !.pc = "added",
                          !.before = plan.sets[k],
                          !.again = <<k, flag, target>>,
                          !.sets[k] = mountSetAdd(plan.sets[k], flag, target)]
  /\ UNCHANGED outsidePlan

\* the caller cancels the context it passed to Command, before the child
\* is started
Cancel ==
  /\ plan.pc \in {"call", "done"} /\ plan.ctx = "live"
  /\ plan' = [plan EXCEPT !.ctx = "cancelled"]
  /\ UNCHANGED outsidePlan

\* the caller starts the returned Cmd: Start gives the context's error when
\* the Cmd's context is done, and fails when the launcher is not there
Start ==
  /\ plan.pc = "done" /\ plan.handle
  /\ plan' = [plan EXCEPT
                !.pc = "started",
                !.startErr = IF plan.cmdCtx = "caller" /\ plan.ctx = "cancelled"
                             THEN "context canceled"
                             ELSE IF ~plan.env.launcher THEN "no such file or directory"
                             ELSE "",
                !.child = ~(plan.cmdCtx = "caller" /\ plan.ctx = "cancelled")
                          /\ plan.env.launcher]
  /\ UNCHANGED outsidePlan

\* calls whose context the caller may cancel, and whose Cmd it starts
StartInit ==
  \E os \in {"linux", "darwin"}, setting \in PlanSettings,
     wd \in {"", "/lnk", "/missing"}, ro \in MountLists(1),
     receiver \in {<<FALSE, "prog">>, <<TRUE, "prog">>, <<FALSE, "">>} :
    plan = [PlanIdle EXCEPT !.os = os, !.pc = "call", !.env = setting[2],
                            !.nilPolicy = receiver[1], !.name = receiver[2],
                            !.policy = PolicyOf(ro, <<>>, wd, setting[1])]

PlanNext ==
  \/ CommandRejected
  \/ CommandLinux
  \/ CommandDarwin
  \/ \E k \in 1..2, pair \in {<<"", "/work">>, <<"--bind", "/work">>} :
        AddAgain(k, pair[1], pair[2])

StartNext ==
  \/ PlanNext
  \/ Cancel
  \/ Start

(***************************************************************************)
(* Go slices of Mount: a header (array, length) over a backing array       *)
(***************************************************************************)
ZeroMount == Mount("", "")

\* an array is named by its owner (0: the caller, i: call i) and its list
NilSlice == [arr |-> <<0, "nil">>, len |-> 0]

Cap(h, s) == IF s.arr[2] = "nil" THEN 0 ELSE Len(h[s.arr])

\* the elements a slice header gives access to
Contents(h, s) == IF s.arr[2] = "nil" THEN <<>> ELSE SubSeq(h[s.arr], 1, s.len)

Fill(n) == [k \in 1..n |-> ZeroMount]

\* the capacity append grows a full slice to
growslice(cap) == IF cap = 0 THEN 1 ELSE 2 * cap

\* append(s, x): in place when there is capacity left, else into a new
\* array, named fresh
appendOne(h, s, x, fresh) ==
  IF s.len < Cap(h, s)
  THEN [heap |-> [h EXCEPT ![s.arr][s.len + 1] = x],
        slice |-> [s EXCEPT !.len = s.len + 1]]
  ELSE [heap |-> [h EXCEPT ![fresh] = Contents(h, s) \o <<x>>
                                        \o Fill(growslice(Cap(h, s)) - s.len - 1)],
        slice |-> [arr |-> fresh, len |-> s.len + 1]]

shareSlice(h, src, fresh) == [heap |-> h, slice |-> src]

\* append([]sandbox.Mount(nil), src...): a new array holding src's elements
appendAll(h, src, fresh) ==
  IF src.len = 0 THEN [heap |-> h, slice |-> NilSlice]
  ELSE [heap |-> [h EXCEPT ![fresh] = Contents(h, src)],
        slice |-> [arr |-> fresh, len |-> src.len]]

(***************************************************************************)
(* SpecLaunch: concurrent Command calls on one shared Policy               *)
(***************************************************************************)
Launches == 1..MaxLaunches

\* two Python instances, as New returns them
Pythons ==
  << [venvRoot |-> "/venv", referenceDir |-> "", configDir |-> "/cfg"],
     [venvRoot |-> "/venv2", referenceDir |-> "/ref", configDir |-> "/cfg2"] >>

\* what the caller put into the shared policy's lists
GivenRO(n) ==
  [k \in 1..n |-> IF k % 2 = 1 THEN Mount("/usr", "/usr") ELSE Mount("/lnk", "/lnk")]

GivenRW(n) == [k \in 1..n |-> Mount("/work", "/work")]

\* a list of n mounts with spare capacity behind it: nil, a literal, or
\* what DefaultPolicy's make([]Mount, 0, c) and appends leave
SliceOf(list, n, spare) ==
  IF n + spare = 0 THEN NilSlice ELSE [arr |-> <<0, list>>, len |-> n]

ArrayKeys == (0..MaxLaunches) \X {"ro", "rw"}

CallIdle ==
  [kind |-> "none", py |-> 1, pc |-> "idle", ro |-> NilSlice, rw |-> NilSlice,
   seenRO |-> <<>>, seenRW |-> <<>>, ok |-> FALSE]

LaunchInit ==
  \E n \in 0..MaxGiven, spareRO \in 0..MaxSpare, spareRW \in {0, MaxSpare},
     goos \in {"linux", "darwin"} :
    /\ shared = [policy |-> [ReadOnlyMounts |-> SliceOf("ro", n, spareRO),
                             ReadWriteMounts |-> SliceOf("rw", n, spareRW),
                             WorkDir |-> "/work"],
                 given |-> [ro |-> GivenRO(n), rw |-> GivenRW(n)],
                 goos |-> goos]
    /\ heap = [key \in ArrayKeys |->
                 IF key = <<0, "ro">> THEN GivenRO(n) \o Fill(spareRO)
                 ELSE IF key = <<0, "rw">> THEN GivenRW(n) \o Fill(spareRW)
                 ELSE <<>>]
    /\ calls = [i \in Launches |-> CallIdle]

\* Policy.commandContext on the mounts read through the slice headers
Launcher(ro, rw) ==
  LET pol == PolicyOf(ro, rw, shared.policy.WorkDir, DefaultFlags)
  IN  IF shared.goos = "linux"
      THEN bubblewrapArgs(pol, <<"python">>, PlainHost).ok
      ELSE seatbeltArgs(pol, <<"python">>, PlainHost).ok

\* Policy.Command called on the shared policy itself
PolicyCommand(i) ==
  /\ calls[i].pc = "idle"
  /\ LET ro == Contents(heap, shared.policy.ReadOnlyMounts)
         rw == Contents(heap, shared.policy.ReadWriteMounts)
     IN  calls' = [calls EXCEPT ![i] =
                     [@ EXCEPT !.kind = "policy", !.pc = "done",
                               !.ro = shared.policy.ReadOnlyMounts,
                               !.rw = shared.policy.ReadWriteMounts,
                               !.seenRO = ro, !.seenRW = rw,
                               !.ok = Launcher(ro, rw)]]
  /\ UNCHANGED <<heap, shared, outsideLaunch>>

\* Python.Command called with a nil policy
PythonCommandNil(i) ==
  /\ calls[i].pc = "idle"
  /\ calls' = [calls EXCEPT ![i] = [@ EXCEPT !.kind = "nil", !.pc = "done"]]
  /\ UNCHANGED <<heap, shared, outsideLaunch>>

\* Python.Command up to policy = &policyCopy
PythonCommand(i, py) ==
  /\ calls[i].pc = "idle"
  /\ LET ro == appendAll(heap, shared.policy.ReadOnlyMounts, <<i, "ro">>)
         rw == appendAll(ro.heap, shared.policy.ReadWriteMounts, <<i, "rw">>)
     IN  /\ heap' = rw.heap
         /\ calls' = [calls EXCEPT ![i] =
                        [@ EXCEPT !.kind = "python", !.py = py, !.pc = "venv",
                                  !.ro = ro.slice, !.rw = rw.slice]]
  /\ UNCHANGED <<shared, outsideLaunch>>

\* the step of call i that appends mount m to its read-only list
AppendRO(i, m, next) ==
  LET r == appendOne(heap, calls[i].ro, m, <<i, "ro">>)
  IN  /\ heap' = r.heap
      /\ calls' = [calls EXCEPT ![i] = [@ EXCEPT !.ro = r.slice, !.pc = next]]

AppendVenv(i) ==
  /\ calls[i].pc = "venv"
  /\ AppendRO(i, Mount(Pythons[calls[i].py].venvRoot,
                       Pythons[calls[i].py].venvRoot), "reference")
  /\ UNCHANGED <<shared, outsideLaunch>>

AppendReference(i) ==
  /\ calls[i].pc = "reference"
  /\ IF Pythons[calls[i].py].referenceDir # ""
     THEN AppendRO(i, Mount(Pythons[calls[i].py].referenceDir,
                            Pythons[calls[i].py].referenceDir), "config")
     ELSE /\ calls' = [calls EXCEPT ![i].pc = "config"]
          /\ UNCHANGED heap
  /\ UNCHANGED <<shared, outsideLaunch>>

AppendConfig(i) ==
  /\ calls[i].pc = "config"
  /\ LET r == appendOne(heap, calls[i].rw,
                        Mount(Pythons[calls[i].py].configDir,
                              Pythons[calls[i].py].configDir), <<i, "rw">>)
     IN  /\ heap' = r.heap
         /\ calls' = [calls EXCEPT ![i] =
                        [@ EXCEPT !.rw = r.slice,
                                  !.pc = IF shared.goos = "darwin"
                                         THEN "homebrew" ELSE "command"]]
  /\ UNCHANGED <<shared, outsideLaunch>>

\* the Homebrew paths that os.Stat finds as directories
HomebrewMounts ==
  IF shared.goos = "darwin"
  THEN <<Mount("/opt", "/opt"), Mount("/usr/local", "/usr/local")>>
  ELSE <<>>

\* the macOS loop over homebrewPaths
AppendHomebrew(i) ==
  /\ calls[i].pc = "homebrew"
  /\ LET r1 == appendOne(heap, calls[i].ro, HomebrewMounts[1], <<i, "ro">>)
         r2 == appendOne(r1.heap, r1.slice, HomebrewMounts[2], <<i, "ro">>)
     IN  /\ heap' = r2.heap
         /\ calls' = [calls EXCEPT ![i] = [@ EXCEPT !.ro = r2.slice, !.pc = "command"]]
  /\ UNCHANGED <<shared, outsideLaunch>>

\* policy.Command(ctx, pythonPath, args...) on the copy
CommandOnCopy(i) ==
  /\ calls[i].pc = "command"
  /\ LET ro == Contents(heap, calls[i].ro)
         rw == Contents(heap, calls[i].rw)
     IN  calls' = [calls EXCEPT ![i] =
                     [@ EXCEPT !.pc = "done", !.seenRO = ro, !.seenRW = rw,
                               !.ok = Launcher(ro, rw)]]
  /\ UNCHANGED <<heap, shared, outsideLaunch>>

LaunchNext ==
  \E i \in Launches :
    \/ PolicyCommand(i)
    \/ PythonCommandNil(i)
    \/ \E py \in 1..Len(Pythons) : PythonCommand(i, py)
    \/ AppendVenv(i)
    \/ AppendReference(i)
    \/ AppendConfig(i)
    \/ AppendHomebrew(i)
    \/ CommandOnCopy(i)

\* the launch variables while another specification runs
HeapIdle == [key \in ArrayKeys |-> <<>>]
SharedIdle ==
  [policy |-> [ReadOnlyMounts |-> NilSlice, ReadWriteMounts |-> NilSlice,
               WorkDir |-> ""],
   given |-> [ro |-> <<>>, rw |-> <<>>], goos |-> "none"]
CallsIdle == [i \in Launches |-> CallIdle]

(***************************************************************************)
(* SpecEnv: the proxy's addresses and the Env() bundle                     *)
(***************************************************************************)
SchemeHTTP == <<"h", "t", "t", "p", ":", "/", "/">>
SchemeUnix == <<"u", "n", "i", "x", ":", "/", "/">>
SchemeSocks5 == <<"s", "o", "c", "k", "s", "5", ":", "/", "/">>

HttpSock == <<"h", "t", "t", "p", ".", "s", "o", "c", "k">>
SocksSock == <<"s", "o", "c", "k", "s", ".", "s", "o", "c", "k">>

\* the names of the bundle, in the order Env lists them
ProxyVarHTTP ==
  << <<"H", "T", "T", "P", "_", "P", "R", "O", "X", "Y">>,
     <<"H", "T", "T", "P", "S", "_", "P", "R", "O", "X", "Y">>,
     <<"h", "t", "t", "p", "_", "p", "r", "o", "x", "y">>,
     <<"h", "t", "t", "p", "s", "_", "p", "r", "o", "x", "y">> >>

ProxyVarAll ==
  << <<"A", "L", "L", "_", "P", "R", "O", "X", "Y">>,
     <<"a", "l", "l", "_", "p", "r", "o", "x", "y">> >>

\* a net.Addr of a listener: *net.TCPAddr or *net.UnixAddr
TCPAddr(ip, port) == [net |-> "tcp", ip |-> ip, port |-> port, name |-> <<>>]
UnixAddr(name) == [net |-> "unix", ip |-> <<>>, port |-> 0, name |-> name]

\* (*net.TCPAddr).String()
TCPAddrString(a) == JoinHostPort(IPv4String(a.ip), Itoa(a.port))

\* formatHTTPAddress
formatHTTPAddress(a) ==
  IF a.net = "tcp" THEN SchemeHTTP \o TCPAddrString(a)
  ELSE IF a.net = "unix" THEN SchemeUnix \o a.name
  ELSE a.name

\* formatSOCKSAddress
formatSOCKSAddress(a) ==
  IF a.net = "tcp" THEN TCPAddrString(a)
  ELSE IF a.net = "unix" THEN SchemeUnix \o a.name
  ELSE a.name

EnvSocks5Everywhere(goos, httpAddr, socksAddr) ==
  [k \in 1..4 |-> ProxyVarHTTP[k] \o <<"=">> \o httpAddr]
  \o [k \in 1..2 |-> ProxyVarAll[k] \o <<"=">> \o SchemeSocks5 \o socksAddr]

\* NetworkProxy.Env
Env(goos, httpAddr, socksAddr) ==
  [k \in 1..4 |-> ProxyVarHTTP[k] \o <<"=">> \o httpAddr]
  \o (IF goos = "linux"
      THEN [k \in 1..2 |-> ProxyVarAll[k] \o <<"=">> \o socksAddr]
      ELSE [k \in 1..2 |-> ProxyVarAll[k] \o <<"=">> \o SchemeSocks5 \o socksAddr])

\* ports of loopback listeners, and directories os.MkdirTemp may create
ListenPorts == {1, 80, 1024, 8080, 49152, 65534, 65535, 443, 3128, 9050}
PortChoices == {q \in SeqsOf(ListenPorts, 2, 2) : q[1] # q[2]}
ProxyTmpDirs ==
  { <<"/", "t", "/", "p", "1">>, <<"/", "t", "/", "p", "2">>, <<"/", "v", "/", "x">> }

AddrsIdle ==
  [goos |-> "none", pc |-> "idle", httpLn |-> UnixAddr(<<>>), socksLn |-> UnixAddr(<<>>),
   httpAddr |-> <<>>, socksAddr |-> <<>>, env |-> <<>>]

\* createListeners has returned: Unix sockets in a fresh directory on
\* Linux, two loopback TCP listeners elsewhere
EnvInit ==
  \/ \E dir \in ProxyTmpDirs :
       addrs = [AddrsIdle EXCEPT !.goos = "linux", !.pc = "listening",
                                 !.httpLn = UnixAddr(dir \o <<"/">> \o HttpSock),
                                 !.socksLn = UnixAddr(dir \o <<"/">> \o SocksSock)]
  \/ \E q \in PortChoices :
       /\ Cardinality({r \in ListenPorts : r <= q[1]}) <= MaxPorts
       /\ Cardinality({r \in ListenPorts : r <= q[2]}) <= MaxPorts
       /\ addrs = [AddrsIdle EXCEPT !.goos = "darwin", !.pc = "listening",
                                    !.httpLn = TCPAddr(<<127, 0, 0, 1>>, q[1]),
                                    !.socksLn = TCPAddr(<<127, 0, 0, 1>>, q[2])]

\* NewNetworkProxy formats and stores the two addresses
FormatAddresses ==
  /\ addrs.pc = "listening"
  /\ addrs' = [addrs EXCEPT !.pc = "ready",
                            !.httpAddr = formatHTTPAddress(addrs.httpLn),
                            !.socksAddr = formatSOCKSAddress(addrs.socksLn)]
  /\ UNCHANGED outsideEnv

\* NetworkProxy.Env, on HTTPAddr() and SOCKSAddr()
CallEnv ==
  /\ addrs.pc = "ready"
  /\ addrs' = [addrs EXCEPT !.pc = "env",
                            !.env = Env(addrs.goos, addrs.httpAddr, addrs.socksAddr)]
  /\ UNCHANGED outsideEnv

EnvNext ==
  \/ FormatAddresses
  \/ CallEnv

(***************************************************************************)
(* SpecClose: boxedpy.New and the Close calls on what it returns           *)
(***************************************************************************)
PyClosers == 1..MaxCloses

PyCallerIdle == [pc |-> "idle", ret |-> "none"]

\* made: "unmade" before New, "nil" when New failed (the caller holds a nil
\* *Python), else "made". autoDir / userDir: whether the auto-created and
\* the caller's config directory exist on disk.
PythonIdle ==
  [made |-> "unmade", configDir |-> "", ownsConfigDir |-> FALSE,
   autoDir |-> FALSE, userDir |-> FALSE,
   cleanupOnce |-> "fresh", removals |-> 0, remover |-> 0, first |-> 0,
   removeFailed |-> FALSE,
   callers |-> [k \in PyClosers |-> PyCallerIdle]]

\* the caller's config directory exists, or is missing, before New
CloseInit ==
  \E userDir \in BOOLEAN : python = [PythonIdle EXCEPT !.userDir = userDir]

\* boxedpy.New: cfgConfigDir is Config.ConfigDir
New(venvOk, cfgConfigDir, mkdirOk) ==
  /\ python.made = "unmade"
  /\ python' =
       IF ~venvOk THEN [python EXCEPT !.made = "nil"]
       ELSE IF cfgConfigDir = ""
       THEN IF ~mkdirOk THEN [python EXCEPT !.made = "nil"]
            ELSE [python EXCEPT !.made = "made", !.configDir = "/tmp/boxedpy_config",
                                !.ownsConfigDir = TRUE, !.autoDir = TRUE]
       ELSE IF ~python.userDir THEN [python EXCEPT !.made = "nil"]
       ELSE [python EXCEPT !.made = "made", !.configDir = cfgConfigDir,
                           !.ownsConfigDir = FALSE]
  /\ UNCHANGED outsideClose

cleanupSkippedNever(p) == p.made = "nil"

\* cleanup's early return: p == nil || !p.ownsConfigDir || p.configDir == ""
cleanupSkipped(p) ==
  p.made = "nil" \/ ~p.ownsConfigDir \/ p.configDir = ""

PyReturn(k, ret) ==
  python' = [python EXCEPT !.callers[k] = [pc |-> "returned", ret |-> ret],
                           !.first = IF python.first = 0 THEN k ELSE @]

\* Python.Close up to cleanupOnce.Do
PyCloseCall(k) ==
  /\ python.made # "unmade" /\ python.callers[k].pc = "idle"
  /\ IF cleanupSkipped(python) THEN PyReturn(k, "nil")
     ELSE IF python.cleanupOnce = "fresh"
     THEN python' = [python EXCEPT !.cleanupOnce = "running",
                                   !.callers[k].pc = "do",
                                   !.first = IF python.first = 0 THEN k ELSE @]
     ELSE IF python.cleanupOnce = "running"
     THEN python' = [python EXCEPT !.callers[k].pc = "blocked",
                                   !.first = IF python.first = 0 THEN k ELSE @]
     ELSE PyReturn(k, "nil")
  /\ UNCHANGED outsideClose

\* the function passed to cleanupOnce.Do: os.RemoveAll(p.configDir)
PyRemoveAll(k, ok) ==
  /\ python.callers[k].pc = "do"
  /\ python' = [python EXCEPT
                  !.callers[k] = [pc |-> "returned",
                                  ret |-> IF ok THEN "nil" ELSE "error"],
                  !.cleanupOnce = "done",
                  !.removals = @ + 1, !.remover = k,
                  !.removeFailed = ~ok,
                  !.autoDir = IF ok /\ python.ownsConfigDir THEN FALSE ELSE @,
                  !.userDir = IF ok /\ ~python.ownsConfigDir THEN FALSE ELSE @]
  /\ UNCHANGED outsideClose

\* a caller that waited in cleanupOnce.Do returns its own nil cleanupErr
PyBlockedReturns(k) ==
  /\ python.callers[k].pc = "blocked" /\ python.cleanupOnce = "done"
  /\ PyReturn(k, "nil")
  /\ UNCHANGED outsideClose

CloseNext ==
  \/ \E venvOk \in BOOLEAN, cfgConfigDir \in {"", "/cfg"}, mkdirOk \in BOOLEAN :
       New(venvOk, cfgConfigDir, mkdirOk)
  \/ \E k \in PyClosers :
       \/ PyCloseCall(k)
       \/ \E ok \in BOOLEAN : PyRemoveAll(k, ok)
       \/ PyBlockedReturns(k)

(***************************************************************************)
(* SpecSocks: handleSOCKS on one accepted connection, with what the client *)
(* sent, what was written to either side, and the splice                   *)
(***************************************************************************)
\* socks5SendReply: [version, rep, reserved, atyp, bnd.addr, bnd.port]
socks5SendReply(rep) == <<5, rep, 0, 1, 0, 0, 0, 0, 0, 0>>

Data(n) == <<"data", n>>

NoRequest ==
  [hdr |-> <<>>, v4 |-> <<>>, domain |-> <<>>, v6 |-> <<>>, portBytes |-> <<>>,
   cut |-> "none"]

\* Requests a client may send (the fields socks5ReadRequest reads)
SocksRequests ==
  [hdr : SocksHeaders, v4 : SocksIPv4, domain : {HostString(<<(<<"b">>), (<<"a">>)>>)},
   v6 : SocksIPv6, portBytes : SocksPortBytes, cut : SocksCuts]

\* clientConn: "unix" for a connection accepted on the Unix socket listener
\* (Linux), "tcp" on the loopback listener; the dialed target is always TCP.
SocksIdle ==
  [clientConn |-> "unix", pc |-> "idle", greeting |-> <<>>, request |-> NoRequest,
   out |-> <<>>, up |-> <<>>, host |-> <<>>, port |-> <<>>,
   allowed |-> FALSE, dials |-> 0, dial |-> "none", target |-> <<>>,
   trace |-> <<>>,
   copyUp |-> "idle", copyDown |-> "idle",
   targetWriteClosed |-> FALSE, clientWriteClosed |-> FALSE,
   targetOpen |-> FALSE, clientClosed |-> FALSE]

SocksFilters ==
  {NilFilter,
   [isNil |-> FALSE, AllowHosts |-> <<>>,
    DenyHosts |-> <<PatternString(FALSE, <<(<<"b">>), (<<"a">>)>>, NoPort)>>]}

SocksInit ==
  /\ filter \in SocksFilters
  /\ socks \in {[SocksIdle EXCEPT !.clientConn = t] : t \in {"unix", "tcp"}}

SocksReturnLeavesOpen(c) ==
  [c EXCEPT !.targetOpen = FALSE, !.pc = "returned"]

\* the deferred clientConn.Close() and targetConn.Close() of handleSOCKS
SocksReturn(c) ==
  [c EXCEPT !.clientClosed = TRUE, !.targetOpen = FALSE, !.pc = "returned"]

\* serveSOCKS accepts a connection and starts handleSOCKS on it
handleSOCKS ==
  /\ socks.pc = "idle"
  /\ socks' = [socks EXCEPT !.pc = "handshake"]
  /\ UNCHANGED <<filter, outsideSocks>>

\* handleSOCKS: socks5Handshake on the bytes the client sent
SocksGreeting(bytes, writeOk) ==
  /\ socks.pc = "handshake"
  /\ LET h == socks5Handshake(bytes, writeOk)
         c == [socks EXCEPT !.greeting = bytes, !.out = @ \o h.wrote]
     IN  socks' =
           IF h.ok
           THEN [c EXCEPT !.trace = Append(@, "greeting"), !.pc = "request"]
           ELSE SocksReturn(c)
  /\ UNCHANGED <<filter, outsideSocks>>

\* handleSOCKS: socks5ReadRequest, and reply 0x01 when it fails
SocksReadRequest(req) ==
  /\ socks.pc = "request"
  /\ LET r == socks5ReadRequest(req.hdr, req.v4, req.domain, req.v6,
                                req.portBytes, req.cut)
         c == [socks EXCEPT !.request = req]
     IN  socks' =
           IF ~r.ok
           THEN SocksReturn([c EXCEPT !.out = Append(@, Reply(socks5SendReply(1)))])
           ELSE [c EXCEPT !.host = r.host, !.port = r.port,
                          !.trace = Append(@, "request"), !.pc = "filter"]
  /\ UNCHANGED <<filter, outsideSocks>>

\* handleSOCKS: p.isAllowed, and reply 0x02 on a denial
SocksFilter ==
  /\ socks.pc = "filter"
  /\ socks' =
       IF ~isAllowed(filter, socks.host, socks.port)
       THEN SocksReturn([socks EXCEPT !.out = Append(@, Reply(socks5SendReply(2)))])
       ELSE [socks EXCEPT !.allowed = TRUE, !.trace = Append(@, "filter"),
                          !.pc = "dial"]
  /\ UNCHANGED <<filter, outsideSocks>>

\* handleSOCKS: net.Dial("tcp", targetAddr), and reply 0x05 when it fails
SocksDial(dialOk) ==
  /\ socks.pc = "dial"
  /\ LET c == [socks EXCEPT !.dials = @ + 1,
                            !.target = JoinHostPort(socks.host, socks.port),
                            !.trace = Append(@, "dial")]
     IN  socks' =
           IF ~dialOk
           THEN SocksReturn([c EXCEPT !.dial = "refused",
                                      !.out = Append(@, Reply(socks5SendReply(5)))])
           ELSE [c EXCEPT !.dial = "connected", !.targetOpen = TRUE, !.pc = "reply"]
  /\ UNCHANGED <<filter, outsideSocks>>

SocksSpliceUnannounced(writeOk) ==
  /\ socks.pc = "reply"
  /\ socks' = [socks EXCEPT !.trace = Append(@, "splice"),
                            !.copyUp = "copying", !.copyDown = "copying",
                            !.pc = "splice"]
  /\ UNCHANGED <<filter, outsideSocks>>

\* handleSOCKS: the success reply, then the call of bidirectionalCopy, whose
\* two copy goroutines start
SocksSuccessReply(writeOk) ==
  /\ socks.pc = "reply"
  /\ socks' =
       IF ~writeOk THEN SocksReturn(socks)
       ELSE [socks EXCEPT !.out = Append(@, Reply(socks5SendReply(0))),
                          !.trace = @ \o <<"reply", "splice">>,
                          !.copyUp = "copying", !.copyDown = "copying",
                          !.pc = "splice"]
  /\ UNCHANGED <<filter, outsideSocks>>

\* io.Copy(targetConn, clientConn) relays a chunk the client sent
CopyUp ==
  /\ socks.pc = "splice" /\ socks.copyUp = "copying"
  /\ Len(socks.up) < MaxChunks
  /\ socks' = [socks EXCEPT !.up = Append(@, Data(Len(@) + 1))]
  /\ UNCHANGED <<filter, outsideSocks>>

\* io.Copy(clientConn, targetConn) relays a chunk the target sent
CopyDown ==
  /\ socks.pc = "splice" /\ socks.copyDown = "copying"
  /\ Cardinality({i \in 1..Len(socks.out) : socks.out[i][1] = "data"}) < MaxChunks
  /\ socks' = [socks EXCEPT !.out = Append(@, Data(Len(@)))]
  /\ UNCHANGED <<filter, outsideSocks>>

\* dst.(*net.TCPConn) in the copy closure of bidirectionalCopy
IsTCPConn(t) == t = "tcp"

\* the copy from the client ended (EOF or error): the target, a *net.TCPConn,
\* gets CloseWrite
CopyUpEnds ==
  /\ socks.pc = "splice" /\ socks.copyUp = "copying"
  /\ socks' = [socks EXCEPT !.copyUp = "done",
                            !.targetWriteClosed = @ \/ IsTCPConn("tcp")]
  /\ UNCHANGED <<filter, outsideSocks>>

\* the copy from the target ended: the client connection gets CloseWrite
\* when it is a *net.TCPConn
CopyDownEnds ==
  /\ socks.pc = "splice" /\ socks.copyDown = "copying"
  /\ socks' = [socks EXCEPT !.copyDown = "done",
                            !.clientWriteClosed = @ \/ IsTCPConn(socks.clientConn)]
  /\ UNCHANGED <<filter, outsideSocks>>

\* wg.Wait() returns, bidirectionalCopy closes both connections and
\* handleSOCKS returns
bidirectionalCopyReturns ==
  /\ socks.pc = "splice" /\ socks.copyUp = "done" /\ socks.copyDown = "done"
  /\ socks' = SocksReturn(socks)
  /\ UNCHANGED <<filter, outsideSocks>>

SocksNext ==
  \/ handleSOCKS
  \/ \E bytes \in Greetings, writeOk \in BOOLEAN : SocksGreeting(bytes, writeOk)
  \/ \E req \in SocksRequests : SocksReadRequest(req)
  \/ SocksFilter
  \/ \E dialOk \in BOOLEAN : SocksDial(dialOk)
  \/ \E writeOk \in BOOLEAN : SocksSuccessReply(writeOk)
  \/ CopyUp
  \/ CopyDown
  \/ CopyUpEnds
  \/ CopyDownEnds
  \/ bidirectionalCopyReturns

(***************************************************************************)
(* Specifications                                                          *)
(***************************************************************************)
MatchNext == ApplyMatch

InitMatch ==
  /\ MatchInit
  /\ filter = NilFilter
  /\ conn = ConnIdle
  /\ proxy = ProxyIdle
  /\ closer = CloserNone
  /\ plan = PlanIdle
  /\ heap = HeapIdle
  /\ shared = SharedIdle
  /\ calls = CallsIdle
  /\ addrs = AddrsIdle
  /\ python = PythonIdle
  /\ socks = SocksIdle

InitFilter ==
  /\ FilterInit
  /\ match = MatchIdle
  /\ proxy = ProxyIdle
  /\ closer = CloserNone
  /\ plan = PlanIdle
  /\ heap = HeapIdle
  /\ shared = SharedIdle
  /\ calls = CallsIdle
  /\ addrs = AddrsIdle
  /\ python = PythonIdle
  /\ socks = SocksIdle

SpecMatch == InitMatch /\ [][MatchNext]_vars

SpecFilter == InitFilter /\ [][FilterNext]_vars

InitProxy ==
  /\ ProxyInit
  /\ match = MatchIdle
  /\ filter = NilFilter
  /\ conn = ConnIdle
  /\ plan = PlanIdle
  /\ heap = HeapIdle
  /\ shared = SharedIdle
  /\ calls = CallsIdle
  /\ addrs = AddrsIdle
  /\ python = PythonIdle
  /\ socks = SocksIdle

InitPlan ==
  /\ PlanInit
  /\ match = MatchIdle
  /\ filter = NilFilter
  /\ conn = ConnIdle
  /\ proxy = ProxyIdle
  /\ closer = CloserNone
  /\ heap = HeapIdle
  /\ shared = SharedIdle
  /\ calls = CallsIdle
  /\ addrs = AddrsIdle
  /\ python = PythonIdle
  /\ socks = SocksIdle

InitLaunch ==
  /\ LaunchInit
  /\ match = MatchIdle
  /\ filter = NilFilter
  /\ conn = ConnIdle
  /\ proxy = ProxyIdle
  /\ closer = CloserNone
  /\ plan = PlanIdle
  /\ addrs = AddrsIdle
  /\ python = PythonIdle
  /\ socks = SocksIdle

InitEnv ==
  /\ EnvInit
  /\ match = MatchIdle
  /\ filter = NilFilter
  /\ conn = ConnIdle
  /\ proxy = ProxyIdle
  /\ closer = CloserNone
  /\ plan = PlanIdle
  /\ heap = HeapIdle
  /\ shared = SharedIdle
  /\ calls = CallsIdle
  /\ python = PythonIdle
  /\ socks = SocksIdle

InitClose ==
  /\ CloseInit
  /\ match = MatchIdle
  /\ filter = NilFilter
  /\ conn = ConnIdle
  /\ proxy = ProxyIdle
  /\ closer = CloserNone
  /\ plan = PlanIdle
  /\ heap = HeapIdle
  /\ shared = SharedIdle
  /\ calls = CallsIdle
  /\ addrs = AddrsIdle
  /\ socks = SocksIdle

SpecClose == InitClose /\ [][CloseNext]_vars

InitSocks ==
  /\ SocksInit
  /\ match = MatchIdle
  /\ conn = ConnIdle
  /\ proxy = ProxyIdle
  /\ closer = CloserNone
  /\ plan = PlanIdle
  /\ heap = HeapIdle
  /\ shared = SharedIdle
  /\ calls = CallsIdle
  /\ addrs = AddrsIdle
  /\ python = PythonIdle

SpecSocks == InitSocks /\ [][SocksNext]_vars

SpecEnv == InitEnv /\ [][EnvNext]_vars

SpecLaunch == InitLaunch /\ [][LaunchNext]_vars

SpecPlan == InitPlan /\ [][PlanNext]_vars

InitFlags ==
  /\ FlagsInit
  /\ match = MatchIdle
  /\ filter = NilFilter
  /\ conn = ConnIdle
  /\ proxy = ProxyIdle
  /\ closer = CloserNone
  /\ heap = HeapIdle
  /\ shared = SharedIdle
  /\ calls = CallsIdle
  /\ addrs = AddrsIdle
  /\ python = PythonIdle
  /\ socks = SocksIdle

SpecFlags == InitFlags /\ [][PlanNext]_vars

InitStart ==
  /\ StartInit
  /\ match = MatchIdle
  /\ filter = NilFilter
  /\ conn = ConnIdle
  /\ proxy = ProxyIdle
  /\ closer = CloserNone
  /\ heap = HeapIdle
  /\ shared = SharedIdle
  /\ calls = CallsIdle
  /\ addrs = AddrsIdle
  /\ python = PythonIdle
  /\ socks = SocksIdle

SpecStart == InitStart /\ [][StartNext]_vars

SpecShutdown == InitProxy /\ [][ShutdownNext]_vars /\ ShutdownFairness

SpecProxy == InitProxy /\ [][ProxyNext]_vars


(***************************************************************************)
(* Claims about the filter                                                 *)
(***************************************************************************)
\* C1: whenever a DenyHosts pattern matches (host, port), isAllowed(host,
\* port) is false, whatever AllowHosts holds.
C1_DenyOverAllow ==
  (conn.checked /\ ~filter.isNil
     /\ AnyMatches(filter.DenyHosts, conn.host, conn.port))
  => ~conn.allowed

\* C2: for a destination no DenyHosts pattern matches, isAllowed is true
\* when the filter is nil or AllowHosts is empty, and otherwise exactly when
\* some AllowHosts pattern matches.
C2_AllowListRule ==
  (conn.checked /\ ~AnyMatches(filter.DenyHosts, conn.host, conn.port))
  => (conn.allowed <=>
        \/ filter.isNil
        \/ Len(filter.AllowHosts) = 0
        \/ AnyMatches(filter.AllowHosts, conn.host, conn.port))

\* the label sequence host ends with the label sequence name, after at least
\* one more label
ProperLabelSuffix(name, host) ==
  /\ Len(host) > Len(name)
  /\ SubSeq(host, Len(host) - Len(name) + 1, Len(host)) = name

\* C3: a pattern *.X matches exactly the hosts made of one or more labels
\* followed by the labels of X (so neither X nor a host whose last label
\* merely ends with the characters of X); a pattern without *. matches only
\* the identical host; in both cases on a port the pattern admits.
C3_WildcardMatching ==
  match.applied =>
    (match.result <=>
       /\ match.pport = NoPort \/ match.pport = match.port
       /\ IF match.wild
          THEN ProperLabelSuffix(match.name, match.labels)
          ELSE match.labels = match.name)

\* C3 witness: *.X has matched a host two labels longer than X
C3_Witness ==
  /\ match.applied /\ match.wild /\ match.result
  /\ Len(match.labels) = Len(match.name) + 2

\* C4: with AllowHosts = [X:port] and no deny pattern, host X is allowed on
\* that port and on no other.
C4_PortQualifier ==
  \A n \in FilterNames, q \in Ports :
    ( /\ filter = [isNil |-> FALSE, DenyHosts |-> <<>>,
                   AllowHosts |-> <<PatternString(FALSE, n, q)>>]
      /\ conn.checked
      /\ conn.host = HostString(n) )
    => (conn.allowed <=> conn.port = q)

\* the handler's last write to the client is the denial code of its protocol
DenialWritten ==
  /\ Len(conn.out) > 0
  /\ conn.out[Len(conn.out)] =
       IF conn.kind = "socks" THEN Reply(2) ELSE Status(403)

\* C5: a request whose destination the filter's rule denies is answered with
\* the denial code and nothing is dialed or sent upstream for it.
C5_NoEgressWhenDenied ==
  (conn.checked /\ ~RuleAllows(filter, conn.host, conn.port))
  => (~conn.dialed /\ DenialWritten)


(***************************************************************************)
(* Claims about the proxy's construction and shutdown                      *)
(***************************************************************************)
\* C7: over any interleaving of Close calls the shutdown body runs at most
\* once, p.closed is closed at most once, the scratch directory is removed
\* at most once, and every call other than the one that ran the body
\* returns nil, and returns only after the body has ended.
C7_CloseIdempotent ==
  /\ proxy.bodyRuns <= 1
  /\ proxy.chanCloses <= 1
  /\ proxy.removals <= 1
  /\ \A k \in Closers :
       (closer[k].pc = "returned" /\ ~closer[k].ran)
       => (~closer[k].err /\ proxy.once = "done" /\ proxy.bodyRuns = 1)

\* C7 witness: two calls of Close have returned, one of them having waited
\* or come late, and the scratch directory is gone
C7_Witness ==
  /\ \E j, k \in Closers :
       /\ closer[j].pc = "returned" /\ closer[j].ran
       /\ closer[k].pc = "returned" /\ ~closer[k].ran
  /\ proxy.tmpDir = "removed"

\* C8: once a call of Close has returned, no connection handler of any kind
\* (SOCKS5, plain HTTP, hijacked CONNECT tunnel) is still running.
C8_CloseWaitsForHandlers ==
  (\E k \in Closers : closer[k].pc = "returned")
  => (proxy.nSocks = 0 /\ proxy.nHttp = 0 /\ proxy.nTunnel = 0)

BindPositions(args) ==
  { i \in 1..Len(args) :
      /\ args[i] \in {"--ro-bind", "--bind"}
      /\ \A j \in 1..i : args[j] # "--" }

NoDuplicates(seq) ==
  \A i, j \in 1..Len(seq) : seq[i] = seq[j] => i = j

\* C10: the generated plan has at most one entry per (mode, canonical
\* target) pair: a bwrap argv binds no (flag, target) twice, the macOS
\* readable and writable path lists repeat no path, every mount set lists
\* each of its targets once per pair, and mountSet.add of a pair that is
\* already present leaves entries and targets as they were.
C10_MountDeduplication ==
  /\ \A i, j \in BindPositions(plan.args) :
       (plan.args[i] = plan.args[j] /\ plan.args[i + 2] = plan.args[j + 2])
         => i = j
  /\ NoDuplicates(plan.readablePaths)
  /\ NoDuplicates(plan.writablePaths)
  /\ \A k \in 1..Len(plan.sets) :
       Len(plan.sets[k].targets) = Cardinality(plan.sets[k].entries)
  /\ (plan.pc = "added"
       /\ mountKey(plan.again[2], plan.again[3]) \in plan.before.entries)
       => plan.sets[plan.again[1]] = plan.before

\* a launch whose policy lists one read-write mount twice and whose work
\* dir is that mount too, planned with a single bind for it, and a repeated
\* add on the resulting set
C10_Witness ==
  /\ plan.pc = "added" /\ plan.os = "linux" /\ plan.ok
  /\ plan.policy.ReadWriteMounts = <<Mount("/work", "/work"), Mount("/lnk", "/lnk")>>
  /\ plan.policy.WorkDir = "/work"
  /\ Cardinality(BindPositions(plan.args)) = 1
  /\ plan.again = <<1, "--bind", "/work">>
  /\ mountKey("--bind", "/work") \in plan.before.entries

(***************************************************************************)
(* Claims about concurrent launches                                        *)
(***************************************************************************)
\* the mounts a Python.Command call adds to its copy
OwnRO(c) ==
  IF c.kind # "python" THEN <<>>
  ELSE <<Mount(Pythons[c.py].venvRoot, Pythons[c.py].venvRoot)>>
       \o (IF Pythons[c.py].referenceDir # ""
           THEN <<Mount(Pythons[c.py].referenceDir, Pythons[c.py].referenceDir)>>
           ELSE <<>>)
       \o HomebrewMounts

OwnRW(c) ==
  IF c.kind # "python" THEN <<>>
  ELSE <<Mount(Pythons[c.py].configDir, Pythons[c.py].configDir)>>

\* C6: however the Command calls sharing one Policy interleave, the
\* policy's ReadOnlyMounts and ReadWriteMounts keep their length and
\* contents, and the mounts each finished launch handed to the launcher
\* are the policy's own followed by that launch's additions.
C6_ConcurrentReuse ==
  /\ shared.policy.ReadOnlyMounts.len = Len(shared.given.ro)
  /\ shared.policy.ReadWriteMounts.len = Len(shared.given.rw)
  /\ Contents(heap, shared.policy.ReadOnlyMounts) = shared.given.ro
  /\ Contents(heap, shared.policy.ReadWriteMounts) = shared.given.rw
  /\ \A i \in Launches :
       (calls[i].pc = "done" /\ calls[i].kind \in {"python", "policy"}) =>
         /\ calls[i].seenRO = shared.given.ro \o OwnRO(calls[i])
         /\ calls[i].seenRW = shared.given.rw \o OwnRW(calls[i])

\* two Python instances launching from one policy whose lists have spare
\* capacity: the first has launched while the second is still appending
C6_Witness ==
  /\ Cap(heap, shared.policy.ReadOnlyMounts) > shared.policy.ReadOnlyMounts.len
  /\ Cap(heap, shared.policy.ReadWriteMounts) > shared.policy.ReadWriteMounts.len
  /\ shared.policy.ReadOnlyMounts.len > 0
  /\ calls[1].kind = "python" /\ calls[1].py = 1 /\ calls[1].pc = "done"
  /\ calls[1].ok
  /\ calls[2].kind = "python" /\ calls[2].py = 2 /\ calls[2].pc = "command"

(***************************************************************************)
(* Claims about the bwrap argv                                             *)
(***************************************************************************)
\* the first position of token in args, 0 when it does not occur
IndexOf(args, token) ==
  IF \E i \in 1..Len(args) : args[i] = token
  THEN CHOOSE i \in 1..Len(args) :
         args[i] = token /\ \A j \in 1..(i - 1) : args[j] # token
  ELSE 0

VirtualTokens == {"--proc", "--dev", "--tmpfs", "--symlink"}
IsolationTokens ==
  {"--unshare-all", "--unshare-net", "--die-with-parent", "--new-session"}

Positions(args, tokens) == { i \in 1..Len(args) : args[i] \in tokens }

LinuxPlanned == plan.os = "linux" /\ plan.pc # "call" /\ plan.ok

\* C11 as stated: every bind, the working directory's included, comes
\* before the virtual filesystems, these before the namespace and
\* lifecycle flags, these before "--" and the command.
C11_PlanOrdering ==
  LinuxPlanned =>
    /\ \A i \in BindPositions(plan.args), j \in Positions(plan.args, VirtualTokens) :
         i < j
    /\ \A i \in Positions(plan.args, VirtualTokens),
          j \in Positions(plan.args, IsolationTokens) : i < j
    /\ \A j \in Positions(plan.args, IsolationTokens) :
         j < IndexOf(plan.args, "--")

\* C11 amended: caller mounts (read-only, then read-write) come first,
\* then /proc and /dev and the other virtual filesystems, then the
\* namespace and lifecycle flags, then the working directory's bind (when
\* no caller mount bound it already) with --chdir, then "--" and the
\* command.
C11_PlanOrderingAmended ==
  LinuxPlanned =>
    LET a == plan.args
        proc == IndexOf(a, "--proc")
        chdir == IndexOf(a, "--chdir")
        sep == IndexOf(a, "--")
    IN  /\ proc > 0 /\ chdir > proc /\ sep = chdir + 2 /\ Len(a) = sep + 1
        /\ SubSeq(a, proc, proc + 3) = <<"--proc", "/proc", "--dev", "/dev">>
        /\ \A i \in BindPositions(a) :
             \/ i < proc
             \/ /\ i = chdir - 3
                /\ SubSeq(a, i, i + 2) = <<"--bind", a[chdir + 1], a[chdir + 1]>>
                /\ \A j \in Positions(a, IsolationTokens \cup VirtualTokens) : j < i
        /\ (\A k \in 1..Len(plan.policy.ReadWriteMounts) :
              canonicalPath(plan.policy.ReadWriteMounts[k].Target).path # a[chdir + 1])
             => chdir - 3 \in BindPositions(a)
        /\ \A i, j \in BindPositions(a) :
             (i < proc /\ j < proc /\ a[i] = "--bind" /\ a[j] = "--ro-bind") => j < i
        /\ \A i \in Positions(a, VirtualTokens),
              j \in Positions(a, IsolationTokens) : proc <= i /\ i < j /\ j < chdir

\* a plan with a caller mount, the virtual filesystems, the isolation
\* flags and, after them, the working directory's own bind
C11_Witness ==
  /\ LinuxPlanned
  /\ plan.policy.ReadOnlyMounts = <<Mount("/usr", "/usr")>>
  /\ plan.policy.ReadWriteMounts = <<>>
  /\ IndexOf(plan.args, "--unshare-all") > IndexOf(plan.args, "--tmpfs")
  /\ IndexOf(plan.args, "--bind") > IndexOf(plan.args, "--new-session")

Emitted(token) == IndexOf(plan.args, token) > 0

DarwinPlanned == plan.os = "darwin" /\ plan.pc # "call" /\ plan.ok

\* the network rules of a generated profile
ProfileNetwork ==
  SelectSeq(plan.profile,
            LAMBDA r : r.op \in {"network-outbound", "network-inbound"})

\* C13: with AllowNetwork the profile has exactly the unconditional
\* outbound and inbound allow rules, whatever AllowLocalhostOnly is; with
\* only AllowLocalhostOnly exactly the two rules gated on localhost:*;
\* with neither, no network rule.
C13_ProfileNetworkRules ==
  DarwinPlanned =>
    /\ plan.policy.AllowNetwork =>
         ProfileNetwork = <<Rule("network-outbound", "", <<>>),
                            Rule("network-inbound", "", <<>>)>>
    /\ (~plan.policy.AllowNetwork /\ plan.policy.AllowLocalhostOnly) =>
         ProfileNetwork = <<Rule("network-outbound", "remote ip localhost:*", <<>>),
                            Rule("network-inbound", "local ip localhost:*", <<>>)>>
    /\ (~plan.policy.AllowNetwork /\ ~plan.policy.AllowLocalhostOnly) =>
         ProfileNetwork = <<>>

\* both booleans set: the unconditional rules only
C13_Witness ==
  /\ DarwinPlanned
  /\ plan.policy.AllowNetwork /\ plan.policy.AllowLocalhostOnly
  /\ Len(ProfileNetwork) = 2
  /\ \A k \in 1..Len(ProfileNetwork) : ProfileNetwork[k].gate = ""

\* the isolated temporary directory of a planned launch: the tmpfs at /tmp
\* under bwrap, the created directory (a writable root) under Seatbelt
IsolatedTmp ==
  IF plan.os = "linux"
  THEN IF \E i \in 1..Len(plan.args) - 1 :
            plan.args[i] = "--tmpfs" /\ plan.args[i + 1] = "/tmp"
       THEN "/tmp" ELSE ""
  ELSE IF Len(plan.writablePaths) > 0
          /\ plan.writablePaths[Len(plan.writablePaths)] = "/private/var/box"
       THEN "/private/var/box" ELSE ""

\* C14: when ProvideTmp is true, a planned launch has an isolated
\* per-launch temporary directory and TMPDIR in the child's environment
\* names it, on Linux and on macOS.
C14_IsolatedTmpDir ==
  (plan.pc # "call" /\ plan.ok /\ plan.policy.ProvideTmp) =>
    /\ IsolatedTmp # ""
    /\ Getenv(plan.cmdEnv, "TMPDIR") = IsolatedTmp

(***************************************************************************)
(* Claims about the working directory and plan-time failures               *)
(***************************************************************************)
\* the directory the launch is to work in, before canonicalization
WantedWorkDir ==
  IF plan.policy.WorkDir # "" THEN plan.policy.WorkDir ELSE plan.env.cwd

\* C15: a planned launch works in the canonical form of Policy.WorkDir,
\* or of the parent's current directory when WorkDir is empty: on Linux
\* the argv has a --bind entry with that target and --chdir to it, on
\* macOS it is among the readable and the writable roots and is cmd.Dir;
\* no caller mount is needed for that.
C15_WorkingDirectory ==
  (plan.pc # "call" /\ plan.ok) =>
    /\ WantedWorkDir \in ExistingPaths
    /\ plan.os = "linux" =>
         /\ \E i \in BindPositions(plan.args) :
              plan.args[i] = "--bind" /\ plan.args[i + 2] = EvalSymlinks(WantedWorkDir)
         /\ plan.args[IndexOf(plan.args, "--chdir") + 1] = EvalSymlinks(WantedWorkDir)
         /\ IndexOf(plan.args, "--chdir") \in 1..(IndexOf(plan.args, "--") - 1)
    /\ plan.os = "darwin" =>
         /\ \E i \in 1..Len(plan.readablePaths) :
              plan.readablePaths[i] = EvalSymlinks(WantedWorkDir)
         /\ \E i \in 1..Len(plan.writablePaths) :
              plan.writablePaths[i] = EvalSymlinks(WantedWorkDir)
         /\ plan.cmdDir = EvalSymlinks(WantedWorkDir)

\* no WorkDir and no caller mounts: the parent's current directory, a
\* symlink, is bound under its canonical name and made the initial directory
C15_Witness ==
  /\ LinuxPlanned
  /\ plan.policy.WorkDir = "" /\ plan.env.cwd = "/lnk"
  /\ plan.policy.ReadOnlyMounts = <<>> /\ plan.policy.ReadWriteMounts = <<>>
  /\ \E i \in BindPositions(plan.args) :
       SubSeq(plan.args, i, i + 4) = <<"--bind", "/work", "/work", "--chdir", "/work">>

\* a caller mount whose source does not exist
MissingSource ==
  \/ \E k \in 1..Len(plan.policy.ReadOnlyMounts) :
       plan.policy.ReadOnlyMounts[k].Source \notin ExistingPaths
  \/ \E k \in 1..Len(plan.policy.ReadWriteMounts) :
       plan.policy.ReadWriteMounts[k].Source \notin ExistingPaths

\* every caller mount is in the plan: bound with its flag on Linux, among
\* the readable (and, if read-write, writable) roots on macOS
Bound(flag, target) ==
  \E i \in BindPositions(plan.args) :
    plan.args[i] = flag /\ plan.args[i + 2] = target

Listed(paths, path) == \E i \in 1..Len(paths) : paths[i] = path

NoMountSkipped ==
  /\ \A k \in 1..Len(plan.policy.ReadOnlyMounts) :
       LET m == plan.policy.ReadOnlyMounts[k]
       IN  /\ m.Source \in ExistingPaths
           /\ IF plan.os = "linux" THEN Bound("--ro-bind", EvalSymlinks(m.Target))
              ELSE Listed(plan.readablePaths, EvalSymlinks(m.Source))
  /\ \A k \in 1..Len(plan.policy.ReadWriteMounts) :
       LET m == plan.policy.ReadWriteMounts[k]
       IN  /\ m.Source \in ExistingPaths
           /\ IF plan.os = "linux" THEN Bound("--bind", EvalSymlinks(m.Target))
              ELSE /\ Listed(plan.readablePaths, EvalSymlinks(m.Source))
                   /\ Listed(plan.writablePaths, EvalSymlinks(m.Source))

\* what Command returns is an error with no handle, or a handle with no error
ErrorOrHandle ==
  /\ plan.handle <=> plan.err = ""
  /\ plan.handle <=> plan.ok

\* C16 as stated: a nil policy, an empty name, a missing launcher binary,
\* a missing mount source or a missing working directory make Command
\* return an error and no handle, on either platform, and a returned
\* handle's plan has every caller mount.
C16_PlanTimeFailures ==
  plan.pc # "call" =>
    /\ ErrorOrHandle
    /\ (plan.nilPolicy \/ plan.name = "" \/ ~plan.env.launcher
        \/ MissingSource \/ WantedWorkDir \notin ExistingPaths)
         => (~plan.handle /\ plan.err # "")
    /\ plan.handle => NoMountSkipped

\* C16 amended: the same, with the missing launcher binary a plan-time
\* error on Linux only; on macOS the launcher's fixed path is not looked
\* up when the plan is made.
C16_PlanTimeFailuresAmended ==
  plan.pc # "call" =>
    /\ ErrorOrHandle
    /\ (plan.nilPolicy \/ plan.name = ""
        \/ (plan.os = "linux" /\ ~plan.env.launcher)
        \/ MissingSource \/ WantedWorkDir \notin ExistingPaths)
         => (~plan.handle /\ plan.err # "")
    /\ plan.handle => NoMountSkipped

\* a call whose only fault is a read-only mount of a missing directory
C16_Witness ==
  /\ plan.pc = "done" /\ ~plan.nilPolicy /\ plan.name # ""
  /\ plan.env.launcher /\ WantedWorkDir \in ExistingPaths
  /\ plan.policy.ReadOnlyMounts = <<Mount("/missing", "/missing")>>
  /\ ~plan.handle /\ plan.err # ""

(***************************************************************************)
(* Claims about cancellation                                               *)
(***************************************************************************)
\* C17 as stated: Command called with an already-cancelled context
\* returns an error and no handle.
C17_CancelledBeforeCommand ==
  (plan.pc # "call" /\ plan.ctxAtCall = "cancelled") =>
    (~plan.handle /\ plan.err # "")

\* the plan of the call can be made
Plannable ==
  /\ ~plan.nilPolicy /\ plan.name # ""
  /\ plan.os = "linux" => plan.env.launcher
  /\ ~MissingSource /\ WantedWorkDir \in ExistingPaths
  /\ (plan.os = "darwin" /\ plan.policy.ProvideTmp) =>
       plan.env.mkdirTemp /\ plan.env.tmpCanon

\* C17 amended: making the plan does not consult the context, so Command
\* returns a handle whenever the plan can be made, cancelled context or
\* not; a context cancelled before the child is started takes effect at
\* Start, which returns the context's error and starts no child.
C17_CancelledBeforeStart ==
  /\ plan.pc # "call" => (plan.handle <=> Plannable)
  /\ (plan.pc = "started" /\ plan.ctx = "cancelled") =>
       (~plan.child /\ plan.startErr = "context canceled")

\* a call made with a cancelled context, whose handle was then started
C17_Witness ==
  /\ plan.pc = "started" /\ plan.ctxAtCall = "cancelled"
  /\ Plannable /\ plan.handle
  /\ ~plan.child /\ plan.startErr = "context canceled"

(***************************************************************************)
(* Claims about the proxy's construction and addresses                     *)
(***************************************************************************)
\* a pattern whose host part, before the last ":", is empty
PortOnly(pattern) ==
  LastIndexByte(pattern, ":") = 1 /\ Len(pattern) > 1

\* C19: no proxy runs with a filter that has a port-only pattern such as
\* ":443": construction with such a filter fails, so no connection is
\* ever handled under it.
C19_InvalidPatternRejected ==
  conn.pc # "idle" =>
    /\ \A k \in 1..Len(filter.AllowHosts) : ~PortOnly(filter.AllowHosts[k])
    /\ \A k \in 1..Len(filter.DenyHosts) : ~PortOnly(filter.DenyHosts[k])

\* the values a bundle gives a variable: what follows "name=" in its entries
EnvValues(env, name) ==
  { SubSeq(env[k], Len(name) + 2, Len(env[k])) :
      k \in { j \in 1..Len(env) : HasPrefix(env[j], name \o <<"=">>) } }

LoopbackPrefix == <<"1", "2", "7", ".", "0", ".", "0", ".", "1", ":">>

\* C18: Env() holds HTTP_PROXY, HTTPS_PROXY, http_proxy, https_proxy, all
\* equal to HTTPAddr(), and ALL_PROXY and all_proxy, which on the Unix
\* socket platform are SOCKSAddr() itself, a unix:// address, and on the
\* TCP platform socks5:// followed by SOCKSAddr(), a 127.0.0.1:port;
\* HTTPAddr() is http://127.0.0.1:port on TCP and unix://path on Unix
\* sockets.
C18_EnvContents ==
  addrs.pc = "env" =>
    /\ Len(addrs.env) = 6
    /\ \A k \in 1..4 : EnvValues(addrs.env, ProxyVarHTTP[k]) = {addrs.httpAddr}
    /\ \A k \in 1..2 :
         EnvValues(addrs.env, ProxyVarAll[k]) =
           IF addrs.httpLn.net = "unix" THEN {addrs.socksAddr}
           ELSE {SchemeSocks5 \o addrs.socksAddr}
    /\ addrs.httpLn.net = "unix" =>
         /\ addrs.httpAddr = SchemeUnix \o addrs.httpLn.name
         /\ addrs.socksAddr = SchemeUnix \o addrs.socksLn.name
    /\ addrs.httpLn.net = "tcp" =>
         /\ addrs.httpAddr = SchemeHTTP \o LoopbackPrefix \o Itoa(addrs.httpLn.port)
         /\ addrs.socksAddr = LoopbackPrefix \o Itoa(addrs.socksLn.port)

\* a Unix-socket proxy whose ALL_PROXY is the unix:// address itself
C18_Witness ==
  /\ addrs.pc = "env" /\ addrs.goos = "linux"
  /\ EnvValues(addrs.env, ProxyVarAll[1]) =
       {SchemeUnix \o <<"/", "t", "/", "p", "1", "/">> \o SocksSock}
  /\ EnvValues(addrs.env, ProxyVarHTTP[2]) =
       {SchemeUnix \o <<"/", "t", "/", "p", "1", "/">> \o HttpSock}

PyReturned(k) == python.callers[k].pc = "returned"

Greeted == socks.pc \notin {"idle", "handshake"}

\* the greeting arrived whole: two header bytes and nmethods methods
WholeGreeting(g) == Len(g) >= 2 /\ Len(g) >= 2 + g[2]

OffersNoAuth(g) == \E i \in 3..(2 + g[2]) : g[i] = 0

AcceptedGreeting(g) == WholeGreeting(g) /\ g[1] = 5 /\ OffersNoAuth(g)

\* [0x05, 0x00] is the first thing written, unless that write failed, in
\* which case nothing is written and the handler has returned
RepliedNoAuth ==
  \/ Len(socks.out) >= 1 /\ socks.out[1] = <<"method", 0>>
  \/ socks.out = <<>> /\ socks.pc = "returned" /\ socks.trace = <<>>

\* a request is read only after an accepted greeting
RequestAfterGreeting ==
  socks.trace # <<>> \/ socks.request # NoRequest =>
    AcceptedGreeting(socks.greeting) /\ socks.out[1] = <<"method", 0>>

\* C21: the greeting must have version 5 and offer method 0x00; the proxy
\* replies [0x05, 0x00] when it accepts the greeting and [0x05, 0xFF] when
\* the greeting fails (wrong version, or no-auth not offered), and reads a
\* request only after an accepted greeting.
C21_GreetingReplies ==
  Greeted =>
    /\ AcceptedGreeting(socks.greeting) => RepliedNoAuth
    /\ WholeGreeting(socks.greeting) /\ ~AcceptedGreeting(socks.greeting) =>
         socks.out = <<(<<"method", 255>>)>> /\ socks.pc = "returned"
    /\ RequestAfterGreeting

\* C21, amended: [0x05, 0xFF] is the reply to a version 5 greeting that does
\* not offer no-auth; a greeting of another version, or one cut short, is
\* answered with nothing and the connection is closed.
C21_GreetingRepliesAmended ==
  Greeted =>
    /\ AcceptedGreeting(socks.greeting) => RepliedNoAuth
    /\ ~AcceptedGreeting(socks.greeting) =>
         /\ socks.pc = "returned" /\ socks.clientClosed
         /\ socks.out =
              IF WholeGreeting(socks.greeting) /\ socks.greeting[1] = 5
              THEN <<(<<"method", 255>>)>> ELSE <<>>
    /\ RequestAfterGreeting

C21_Witness ==
  /\ Greeted /\ socks.greeting = <<5, 1, 2>>
  /\ socks.out = <<(<<"method", 255>>)>> /\ socks.clientClosed

\* socks5ReadRequest has run on the recorded request
RequestRead == socks.request # NoRequest

\* the four header bytes arrived and break a rule of the protocol
BadHeader(req) ==
  /\ req.cut # "header"
  /\ req.hdr[1] # 5 \/ req.hdr[2] # 1 \/ req.hdr[4] \notin {1, 3, 4}

FailureReply == <<"reply", <<5, 1, 0, 1, 0, 0, 0, 0, 0, 0>>>>

\* the host a whole, valid request names, per address type
WantedHost(req) ==
  IF req.hdr[4] = 1 /\ req.v4 = <<127, 0, 0, 1>>
  THEN <<"1", "2", "7", ".", "0", ".", "0", ".", "1">>
  ELSE IF req.hdr[4] = 4 /\ req.v6 = Loopback6 THEN <<":", ":", "1">>
  ELSE req.domain

WantedPort(req) ==
  IF req.portBytes = <<1, 187>> THEN <<"4", "4", "3">> ELSE <<"8", "0">>

\* C24: after an accepted greeting, a request with a version other than 5, a
\* command other than CONNECT or an address type other than 1, 3, 4 gets the
\* error reply 0x01 and the connection is closed without a dial; a valid
\* request yields the host of its address type and the big-endian port.
C24_RequestValidation ==
  RequestRead =>
    /\ BadHeader(socks.request) =>
         /\ socks.out = <<(<<"method", 0>>), FailureReply>>
         /\ socks.clientClosed /\ socks.pc = "returned"
         /\ socks.dials = 0 /\ ~socks.targetOpen /\ socks.up = <<>>
    /\ ~BadHeader(socks.request) /\ socks.request.cut = "none" =>
         /\ socks.host = WantedHost(socks.request)
         /\ socks.port = WantedPort(socks.request)
         /\ socks.dials > 0 =>
              socks.target = WantedHost(socks.request) \o <<":">> \o WantedPort(socks.request)
                \/ socks.target = <<"[", ":", ":", "1", "]", ":">> \o WantedPort(socks.request)

C24_Witness ==
  /\ RequestRead /\ socks.request.hdr = <<5, 2, 0, 3>> /\ socks.request.cut = "none"
  /\ socks.out = <<(<<"method", 0>>), FailureReply>> /\ socks.clientClosed

SuccessReply == <<"reply", <<5, 0, 0, 1, 0, 0, 0, 0, 0, 0>>>>

RefusedReply == <<"reply", <<5, 5, 0, 1, 0, 0, 0, 0, 0, 0>>>>

\* positions of relayed payload among the writes to the client
DataWritten == {i \in 1..Len(socks.out) : socks.out[i][1] = "data"}

Spliced == socks.copyUp # "idle" \/ socks.copyDown # "idle"

\* C25: for an allowed request the proxy dials host:port; a failed dial is
\* answered 0x05 and the handler closes without a splice; a successful dial
\* is answered 0x00 with bind address 0.0.0.0:0, and only then the splice
\* starts: nothing is relayed either way before the success reply is written.
C25_ConnectOutcome ==
  /\ socks.dials > 0 =>
       socks.allowed /\ socks.target = JoinHostPort(socks.host, socks.port)
  /\ socks.dial = "refused" =>
       /\ socks.out = <<(<<"method", 0>>), RefusedReply>>
       /\ socks.pc = "returned" /\ socks.clientClosed
       /\ ~Spliced /\ socks.up = <<>>
  /\ Spliced \/ socks.up # <<>> \/ DataWritten # {} =>
       /\ socks.dial = "connected"
       /\ Len(socks.out) >= 2 /\ socks.out[2] = SuccessReply
       /\ \A i \in DataWritten : i > 2

C25_Witness ==
  /\ socks.dial = "connected" /\ socks.up # <<>> /\ DataWritten # {}
  /\ socks.out[2] = SuccessReply

HandlerOrder == <<"greeting", "request", "filter", "dial", "reply", "splice">>

RepliesWritten == {i \in 1..Len(socks.out) : socks.out[i][1] = "reply"}

\* C29: on every accepted SOCKS connection the handler moves greeting ->
\* request -> filter -> dial -> reply -> splice; it dials only after an
\* accepted greeting, a valid request and an allow decision, writes at most
\* one request reply, and closes the client connection on every exit path.
C29_HandlerOrder ==
  /\ Len(socks.trace) <= Len(HandlerOrder)
  /\ socks.trace = SubSeq(HandlerOrder, 1, Len(socks.trace))
  /\ socks.dials <= 1
  /\ socks.dials > 0 =>
       /\ AcceptedGreeting(socks.greeting)
       /\ ~BadHeader(socks.request) /\ socks.request.cut = "none"
       /\ socks.allowed
  /\ Cardinality(RepliesWritten) <= 1
  /\ socks.pc = "returned" => socks.clientClosed /\ ~socks.targetOpen
  /\ socks.clientClosed => socks.pc = "returned"

C29_Witness ==
  /\ socks.pc = "returned" /\ socks.trace = HandlerOrder
  /\ socks.clientClosed /\ Cardinality(RepliesWritten) = 1

\* C22: in bidirectionalCopy, for TCP and for Unix-domain connections, when
\* one direction has ended the write half of the peer connection is closed
\* while the other direction keeps flowing, and both sockets are fully closed
\* only after both directions have finished.
C22_HalfCloseSplice ==
  /\ socks.copyUp = "done" => socks.targetWriteClosed
  /\ socks.copyDown = "done" => socks.clientWriteClosed
  /\ Spliced /\ (socks.clientClosed \/ ~socks.targetOpen) =>
       socks.copyUp = "done" /\ socks.copyDown = "done"

ListenersClosed == proxy.httpLn = "closed" /\ proxy.socksLn = "closed"

\* no accept loop and no handler counted in p.wg is running
TrackedQuiet ==
  /\ proxy.wg = 0 /\ proxy.nSocks = 0
  /\ proxy.srvHTTP = "exited" /\ proxy.srvSOCKS = "exited"

\* the Close call that runs the body of closeOnce.Do is at one of these steps
CloserAt(steps) == \E k \in Closers : closer[k].ran /\ closer[k].pc \in steps

\* C23: the one execution of Close closes the shutdown channel, then both
\* listeners, then asks the HTTP server to shut down, then waits for the
\* wait-group, and only then removes the scratch directory: the directory is
\* never removed while an accept loop or a tracked handler is running.
C23_ShutdownSequence ==
  proxy.ctor = "ok" =>
    /\ proxy.bodyRuns <= 1 /\ proxy.chanCloses <= 1 /\ proxy.removals <= 1
    /\ proxy.httpLn = "closed" \/ proxy.socksLn = "closed" =>
         proxy.chanCloses = 1 /\ ListenersClosed
    /\ proxy.serverShut => ListenersClosed
    /\ CloserAt({"closeListeners"}) =>
         proxy.chanCloses = 1 /\ proxy.httpLn = "open" /\ proxy.socksLn = "open"
    /\ CloserAt({"readServer"}) => ListenersClosed /\ ~proxy.serverShut
    /\ CloserAt({"shutdown", "wait", "remove"}) =>
         /\ ListenersClosed /\ proxy.removals = 0 /\ proxy.tmpDir # "removed"
         /\ \A k \in Closers : closer[k].ran /\ closer[k].server => proxy.serverShut
    /\ CloserAt({"remove"}) \/ proxy.removals > 0 \/ proxy.tmpDir = "removed" =>
         proxy.chanCloses = 1 /\ ListenersClosed /\ TrackedQuiet

C23_Witness ==
  /\ proxy.ctor = "ok" /\ proxy.removals = 1 /\ proxy.tmpDir = "removed"
  /\ proxy.serverShut /\ proxy.accepted > 0 /\ TrackedQuiet

\* C27: with no client connections open, under every interleaving of Close
\* with the start-up of the two serve goroutines, a Close call that has
\* started returns in the end, and both serve goroutines have exited by
\* then, none left blocked in Accept.
C27_ShutdownTerminates ==
  \A k \in Closers :
    (closer[k].pc # "idle") ~>
      (/\ closer[k].pc = "returned"
       /\ proxy.srvHTTP = "exited" /\ proxy.srvSOCKS = "exited" /\ proxy.wg = 0)

\* Close read p.httpServer before serveHTTP had published it, and returned
C27_Witness ==
  /\ \E k \in Closers : closer[k].ran /\ closer[k].pc = "returned" /\ ~closer[k].server
  /\ proxy.httpServer
  /\ proxy.srvHTTP = "exited" /\ proxy.srvSOCKS = "exited"

\* handleConnect has answered the CONNECT request, or is splicing
ConnectAnswered == conn.kind = "connect" /\ conn.pc \in {"done", "splice"}

ConnectResponses ==
  {<<"status", 400>>, <<"status", 403>>, <<"status", 502>>, <<"status", 200>>}

\* what the claim says of the single outcomes
ConnectOutcomes ==
  /\ ConnectAnswered /\ CountByte(conn.authority, ":") = 0 =>
       conn.out = <<(<<"status", 400>>)>> /\ ~conn.dialed
  /\ conn.kind = "connect" /\ conn.dial = "refused" =>
       conn.allowed /\ conn.out = <<(<<"status", 502>>)>>
  /\ conn.kind = "connect" /\ conn.pc = "splice" =>
       conn.dial = "connected" /\ conn.out = <<(<<"status", 200>>)>>
  /\ conn.kind = "connect" /\ conn.pc = "dial" => conn.out = <<>>

\* C26: a CONNECT without an explicit port gets 400; an allowed target whose
\* dial fails gets 502; after a successful dial the connection is hijacked,
\* "200 Connection Established" is written and only then the splice starts;
\* exactly one of 400, 403, 502, 200 is produced per CONNECT request.
C26_ConnectOutcome ==
  /\ ConnectOutcomes
  /\ ConnectAnswered => Len(conn.out) = 1 /\ conn.out[1] \in ConnectResponses

\* C26, amended: at most one response is produced per CONNECT request: one
\* of 400, 403, 502, 200, or 500 when the connection cannot be hijacked, or
\* none when the 200 line cannot be written to the hijacked connection.
C26_ConnectOutcomeAmended ==
  /\ ConnectOutcomes
  /\ ConnectAnswered =>
       \/ Len(conn.out) = 1 /\ conn.out[1] \in ConnectResponses
       \/ conn.out = <<(<<"status", 500>>)>> /\ conn.dial = "connected"
       \/ conn.out = <<>> /\ conn.dial = "connected" /\ conn.closed

C26_Witness ==
  /\ conn.kind = "connect" /\ conn.pc = "splice"
  /\ conn.dial = "connected" /\ conn.out = <<(<<"status", 200>>)>>

\* C28: on macOS every temporary directory seatbeltArgs creates is, on every
\* exit path, either attached to the returned handle (TMPDIR set, finalizer
\* registered) or removed before the error is returned; none is left on disk
\* without an owner.
C28_TempDirOwnership ==
  (plan.os = "darwin" /\ plan.pc # "call" /\ plan.tmpCreated # "") =>
    /\ plan.handle /\ plan.finalizer
    /\ Getenv(plan.cmdEnv, "TMPDIR") = EvalSymlinks(plan.tmpCreated)

\* the -D definitions of one kind, by position in argv
DefsOf(kind) == {i \in 1..Len(plan.params) : plan.params[i][1][1] = kind}

\* the paths bound to the parameters of one kind
BoundTo(kind) == {plan.params[i][2] : i \in DefsOf(kind)}

\* the (param ...) references of the profile's rule for one operation
RefsOf(op) ==
  UNION { {plan.profile[k].params[j] : j \in 1..Len(plan.profile[k].params)} :
          k \in {n \in 1..Len(plan.profile) : plan.profile[n].op = op} }

\* the definitions of one kind are numbered 0..n-1 in argv order, and the
\* profile's rule refers to exactly these parameters
IndexedFromZero(kind, op) ==
  LET defs == DefsOf(kind)
      n == Cardinality(defs)
  IN  /\ {plan.params[i][1] : i \in defs} = {<<kind, j>> : j \in 0..(n - 1)}
      /\ \A i \in defs :
           plan.params[i][1][2] = Cardinality({h \in defs : h < i})
      /\ RefsOf(op) = {<<kind, j>> : j \in 0..(n - 1)}

ListedReadWrite(path) ==
  \E k \in 1..Len(plan.policy.ReadWriteMounts) :
    EvalSymlinks(plan.policy.ReadWriteMounts[k].Source) = path

\* every writable path is readable too, and the read-write mount sources,
\* the working directory and the temporary directory are writable
WritableReadable ==
  /\ BoundTo("WRITABLE_ROOT") \subseteq BoundTo("READABLE_ROOT")
  /\ \A k \in 1..Len(plan.policy.ReadWriteMounts) :
       EvalSymlinks(plan.policy.ReadWriteMounts[k].Source) \in BoundTo("WRITABLE_ROOT")
  /\ EvalSymlinks(WantedWorkDir) \in BoundTo("WRITABLE_ROOT")
  /\ plan.policy.ProvideTmp =>
       Getenv(plan.cmdEnv, "TMPDIR") \in BoundTo("WRITABLE_ROOT")
  /\ IndexedFromZero("READABLE_ROOT", "file-read*")
  /\ IndexedFromZero("WRITABLE_ROOT", "file-write*")

\* C30: in the macOS profile every path bound to a WRITABLE_ROOT parameter
\* is bound to a READABLE_ROOT parameter too, a read-only mount source is
\* bound to a WRITABLE_ROOT parameter only when it is also listed
\* read-write, and the -D bindings are numbered 0..n-1, one for each
\* (param ...) reference of the profile.
C30_WritableImpliesReadable ==
  DarwinPlanned =>
    /\ WritableReadable
    /\ \A k \in 1..Len(plan.policy.ReadOnlyMounts) :
         LET src == EvalSymlinks(plan.policy.ReadOnlyMounts[k].Source)
         IN  src \in BoundTo("WRITABLE_ROOT") => ListedReadWrite(src)

\* C30, amended: a read-only mount source is bound to a WRITABLE_ROOT
\* parameter only when it is also listed read-write or is the working
\* directory, which is always writable.
C30_WritableImpliesReadableAmended ==
  DarwinPlanned =>
    /\ WritableReadable
    /\ \A k \in 1..Len(plan.policy.ReadOnlyMounts) :
         LET src == EvalSymlinks(plan.policy.ReadOnlyMounts[k].Source)
         IN  src \in BoundTo("WRITABLE_ROOT") =>
               ListedReadWrite(src) \/ src = EvalSymlinks(WantedWorkDir)

\* a read-only mount, a read-write mount elsewhere and the temporary directory
C30_Witness ==
  /\ DarwinPlanned /\ plan.policy.ProvideTmp
  /\ plan.policy.ReadOnlyMounts = <<Mount("/usr", "/usr")>>
  /\ plan.policy.ReadWriteMounts = <<Mount("/usr", "/work")>>
  /\ Cardinality(DefsOf("WRITABLE_ROOT")) = 3
  /\ Cardinality(DefsOf("READABLE_ROOT")) = 3

====
